---- MODULE Spec2Model ----
(***************************************************************************)
(* Model of optimum/exporters/tasks.py: the TasksManager registry of       *)
(* export-configuration constructors, the task synonym map, the            *)
(* task -> loader-class tables and the lookups over them.                  *)
(*                                                                         *)
(* Representation.  Python dicts are TLA+ functions with a finite domain   *)
(* (the empty dict is <<>>); a str value of a loader table is kept apart   *)
(* from a tuple value by the field "str".  TLC cannot look inside a string *)
(* so the three string conversions of the code are finite maps over the    *)
(* names the model uses: task.replace("-with-past", "") is StripWithPast,  *)
(* str.lower() is Lower and str.replace("_", "-") is UnderscoreToHyphen.   *)
(* A functools.partial(config_cls, **kwargs) is the record                 *)
(* [cls |-> name of config_cls, kwargs |-> record of the fixed kwargs].    *)
(* The outcome of a call is [kind |-> "ok", value |-> v] or                *)
(* [kind |-> <exception class>, at |-> <place of the raise>].              *)
(***************************************************************************)
EXTENDS Integers, Sequences, FiniteSets, TLC

VARIABLES
    registry,   \* TasksManager._LIBRARY_TO_SUPPORTED_MODEL_TYPES (library -> model type -> backend -> task -> constructor)
    env,        \* what is installed: [torch, tf, onnx |-> BOOLEAN]
    call,       \* the last call made on the TasksManager: its name, its arguments and its outcome
    nregs,      \* number of create_register decorators applied so far
    registered  \* history: what the decorators that returned were asked to register

vars == <<registry, env, call, nregs, registered>>

Range(f) == {f[x] : x \in DOMAIN f}

Ok(v) == [kind |-> "ok", value |-> v]
Raise(exc, where) == [kind |-> exc, at |-> where]

----------------------------------------------------------------------------
(* String conversions *)

\* every name of the model that contains "-with-past", with the name that
\* replace("-with-past", "") turns it into
WithPastNames ==
    "automatic-speech-recognition-with-past" :> "automatic-speech-recognition" @@
    "document-question-answering-with-past" :> "document-question-answering" @@
    "feature-extraction-with-past" :> "feature-extraction" @@
    "image-to-text-with-past" :> "image-to-text" @@
    "vision2seq-lm-with-past" :> "vision2seq-lm" @@
    "text-generation-with-past" :> "text-generation" @@
    "text2text-generation-with-past" :> "text2text-generation" @@
    "visual-question-answering-with-past" :> "visual-question-answering" @@
    "causal-lm-with-past" :> "causal-lm" @@
    "default-with-past" :> "default" @@
    "seq2seq-lm-with-past" :> "seq2seq-lm" @@
    "speech2seq-lm-with-past" :> "speech2seq-lm" @@
    "mask-generation-with-past" :> "mask-generation" @@
    "bogus-task-with-past" :> "bogus-task"

\* "-with-past" in task
HasWithPast(task) == task \in DOMAIN WithPastNames

\* task.replace("-with-past", "")
StripWithPast(task) == IF HasWithPast(task) THEN WithPastNames[task] ELSE task

\* the names of the model that str.lower() changes (every other name of the
\* model is lower case already)
UpperCaseNames ==
    "BERT" :> "bert" @@
    "CLIP" :> "clip" @@
    "My_Model" :> "my_model" @@
    "My-Model" :> "my-model" @@
    "PT" :> "pt"

Lower(s) == IF s \in DOMAIN UpperCaseNames THEN UpperCaseNames[s] ELSE s

\* the names of the model that str.replace("_", "-") changes
UnderscoreNames ==
    "My_Model" :> "My-Model" @@
    "my_model" :> "my-model"

UnderscoreToHyphen(s) == IF s \in DOMAIN UnderscoreNames THEN UnderscoreNames[s] ELSE s

\* the names of the model that str.replace("-", "_") changes
HyphenNames ==
    "audio-spectrogram-transformer" :> "audio_spectrogram_transformer" @@
    "blenderbot-small" :> "blenderbot_small" @@
    "data2vec-audio" :> "data2vec_audio" @@
    "data2vec-text" :> "data2vec_text" @@
    "data2vec-vision" :> "data2vec_vision" @@
    "deberta-v2" :> "deberta_v2" @@
    "donut-swin" :> "donut_swin" @@
    "encoder-decoder" :> "encoder_decoder" @@
    "gpt-bigcode" :> "gpt_bigcode" @@
    "gpt-neo" :> "gpt_neo" @@
    "gpt-neox" :> "gpt_neox" @@
    "m2m-100" :> "m2m_100" @@
    "mobilenet-v1" :> "mobilenet_v1" @@
    "mobilenet-v2" :> "mobilenet_v2" @@
    "sew-d" :> "sew_d" @@
    "speech-to-text" :> "speech_to_text" @@
    "table-transformer" :> "table_transformer" @@
    "unispeech-sat" :> "unispeech_sat" @@
    "vision-encoder-decoder" :> "vision_encoder_decoder" @@
    "visual-bert" :> "visual_bert" @@
    "wav2vec2-conformer" :> "wav2vec2_conformer" @@
    "xlm-roberta" :> "xlm_roberta"

HyphenToUnderscore(s) == IF s \in DOMAIN HyphenNames THEN HyphenNames[s] ELSE s

----------------------------------------------------------------------------
(* Module-level functions *)

\* is_backend_available (tasks.py 61-66)
is_backend_available(backend, e) ==
    CASE backend = "onnx" -> e.onnx
      [] backend = "tflite" -> e.tf

\* config classes of optimum.exporters.<backend>.model_configs that declare
\* SUPPORTS_PAST: the classes the tables below register for a "-with-past" task
PAST_CONFIG_CLASSES == {
    "BartOnnxConfig", "BlenderbotOnnxConfig", "BlenderbotSmallOnnxConfig",
    "BloomOnnxConfig", "CodeGenOnnxConfig", "EncoderDecoderOnnxConfig",
    "FalconOnnxConfig", "GPT2OnnxConfig", "GPTBigCodeOnnxConfig",
    "GPTJOnnxConfig", "GPTNeoOnnxConfig", "GPTNeoXOnnxConfig",
    "GemmaOnnxConfig", "LlamaOnnxConfig", "LongT5OnnxConfig",
    "M2M100OnnxConfig", "MBartOnnxConfig", "MPTOnnxConfig",
    "MT5OnnxConfig", "MarianOnnxConfig", "MistralOnnxConfig",
    "OPTOnnxConfig", "PegasusOnnxConfig", "PhiOnnxConfig",
    "Pix2StructOnnxConfig", "Qwen2OnnxConfig", "Speech2TextOnnxConfig",
    "T5OnnxConfig", "TrOCROnnxConfig", "VisionEncoderDecoderOnnxConfig",
    "WhisperOnnxConfig"}

\* getattr(importlib.import_module(...model_configs), config_cls_name)
ConfigClass(config_cls_name) ==
    [name |-> config_cls_name, SUPPORTS_PAST |-> config_cls_name \in PAST_CONFIG_CLASSES]

\* make_backend_config_constructor_for_task without the SUPPORTS_PAST test
make_backend_config_constructor_for_task_unchecked(config_cls, task) ==
    IF HasWithPast(task)
    THEN Ok([cls |-> config_cls.name,
             kwargs |-> [use_past |-> TRUE, task |-> StripWithPast(task)]])
    ELSE Ok([cls |-> config_cls.name, kwargs |-> [task |-> task]])

\* make_backend_config_constructor_for_task (tasks.py 69-76)
make_backend_config_constructor_for_task(config_cls, task) ==
    IF HasWithPast(task)
    THEN IF ~config_cls.SUPPORTS_PAST
         THEN Raise("ValueError", "make_backend_config_constructor_for_task")
         ELSE Ok([cls |-> config_cls.name,
                  kwargs |-> [use_past |-> TRUE, task |-> StripWithPast(task)]])
    ELSE Ok([cls |-> config_cls.name, kwargs |-> [task |-> task]])

\* an entry of supported_tasks: a task name, or (task name, backends)
S(task) == [tuple |-> FALSE, task |-> task, backends |-> {}]
P(task, backends) == [tuple |-> TRUE, task |-> task, backends |-> backends]

\* supported_tasks_mapping (tasks.py 79-123); exporters is the sequence of
\* the (backend, config class name) keyword arguments
supported_tasks_mapping(supported_tasks, exporters, e) ==
    LET config_cls_name(backend) ==
            (CHOOSE x \in Range(exporters) : x[1] = backend)[2]
        kept(backend) ==
            {t \in Range(supported_tasks) : ~t.tuple \/ backend \in t.backends}
    IN [backend \in {x[1] : x \in {y \in Range(exporters) : is_backend_available(y[1], e)}} |->
            [task \in {t.task : t \in kept(backend)} |->
                make_backend_config_constructor_for_task(
                    ConfigClass(config_cls_name(backend)), task).value]]

----------------------------------------------------------------------------
(* TasksManager: class attributes *)

\* a value of a tasks -> model loaders table: one class name, or a tuple of them
Str(name) == [str |-> TRUE, names |-> <<name>>]
Tuple(names) == [str |-> FALSE, names |-> names]

\* the keys of an ordered dict, d[key] and key in d
Keys(d) == {d[i][1] : i \in DOMAIN d}
Get(d, key) == (CHOOSE p \in Range(d) : p[1] = key)[2]

\* _TRANSFORMERS_TASKS_TO_MODEL_LOADERS (tasks.py 164-190)
_TRANSFORMERS_TASKS_TO_MODEL_LOADERS == <<
    <<"audio-classification", Str("AutoModelForAudioClassification")>>,
    <<"audio-frame-classification", Str("AutoModelForAudioFrameClassification")>>,
    <<"audio-xvector", Str("AutoModelForAudioXVector")>>,
    <<"automatic-speech-recognition", Tuple(<<"AutoModelForSpeechSeq2Seq", "AutoModelForCTC">>)>>,
    <<"conversational", Tuple(<<"AutoModelForCausalLM", "AutoModelForSeq2SeqLM">>)>>,
    <<"depth-estimation", Str("AutoModelForDepthEstimation")>>,
    <<"feature-extraction", Str("AutoModel")>>,
    <<"fill-mask", Str("AutoModelForMaskedLM")>>,
    <<"image-classification", Str("AutoModelForImageClassification")>>,
    <<"image-segmentation", Tuple(<<"AutoModelForImageSegmentation", "AutoModelForSemanticSegmentation">>)>>,
    <<"image-to-image", Str("AutoModelForImageToImage")>>,
    <<"image-to-text", Str("AutoModelForVision2Seq")>>,
    <<"mask-generation", Str("AutoModel")>>,
    <<"masked-im", Str("AutoModelForMaskedImageModeling")>>,
    <<"multiple-choice", Str("AutoModelForMultipleChoice")>>,
    <<"object-detection", Str("AutoModelForObjectDetection")>>,
    <<"question-answering", Str("AutoModelForQuestionAnswering")>>,
    <<"semantic-segmentation", Str("AutoModelForSemanticSegmentation")>>,
    <<"text-to-audio", Tuple(<<"AutoModelForTextToSpectrogram", "AutoModelForTextToWaveform">>)>>,
    <<"text-generation", Str("AutoModelForCausalLM")>>,
    <<"text2text-generation", Str("AutoModelForSeq2SeqLM")>>,
    <<"text-classification", Str("AutoModelForSequenceClassification")>>,
    <<"token-classification", Str("AutoModelForTokenClassification")>>,
    <<"zero-shot-image-classification", Str("AutoModelForZeroShotImageClassification")>>,
    <<"zero-shot-object-detection", Str("AutoModelForZeroShotObjectDetection")>>
    >>

\* _DIFFUSERS_TASKS_TO_MODEL_LOADERS (tasks.py 192-195)
_DIFFUSERS_TASKS_TO_MODEL_LOADERS == <<
    <<"stable-diffusion", Str("StableDiffusionPipeline")>>,
    <<"stable-diffusion-xl", Str("StableDiffusionXLImg2ImgPipeline")>>
    >>

\* _TIMM_TASKS_TO_MODEL_LOADERS (tasks.py 197-199)
_TIMM_TASKS_TO_MODEL_LOADERS == <<
    <<"image-classification", Str("create_model")>>
    >>

\* _SENTENCE_TRANSFORMERS_TASKS_TO_MODEL_LOADERS (tasks.py 201-204)
_SENTENCE_TRANSFORMERS_TASKS_TO_MODEL_LOADERS == <<
    <<"feature-extraction", Str("SentenceTransformer")>>,
    <<"sentence-similarity", Str("SentenceTransformer")>>
    >>

\* _TRANSFORMERS_TASKS_TO_TF_MODEL_LOADERS (tasks.py 214-237)
_TRANSFORMERS_TASKS_TO_TF_MODEL_LOADERS == <<
    <<"conversational", Tuple(<<"TFAutoModelForCausalLM", "TFAutoModelForSeq2SeqLM">>)>>,
    <<"document-question-answering", Str("TFAutoModelForDocumentQuestionAnswering")>>,
    <<"feature-extraction", Str("TFAutoModel")>>,
    <<"fill-mask", Str("TFAutoModelForMaskedLM")>>,
    <<"text-generation", Str("TFAutoModelForCausalLM")>>,
    <<"image-classification", Str("TFAutoModelForImageClassification")>>,
    <<"text2text-generation", Str("TFAutoModelForSeq2SeqLM")>>,
    <<"text-classification", Str("TFAutoModelForSequenceClassification")>>,
    <<"token-classification", Str("TFAutoModelForTokenClassification")>>,
    <<"multiple-choice", Str("TFAutoModelForMultipleChoice")>>,
    <<"object-detection", Str("TFAutoModelForObjectDetection")>>,
    <<"question-answering", Str("TFAutoModelForQuestionAnswering")>>,
    <<"image-segmentation", Str("TFAutoModelForImageSegmentation")>>,
    <<"masked-im", Str("TFAutoModelForMaskedImageModeling")>>,
    <<"semantic-segmentation", Str("TFAutoModelForSemanticSegmentation")>>,
    <<"automatic-speech-recognition", Str("TFAutoModelForSpeechSeq2Seq")>>,
    <<"audio-classification", Str("TFAutoModelForAudioClassification")>>,
    <<"audio-frame-classification", Str("TFAutoModelForAudioFrameClassification")>>,
    <<"audio-xvector", Str("TFAutoModelForAudioXVector")>>,
    <<"image-to-text", Str("TFAutoModelForVision2Seq")>>,
    <<"zero-shot-image-classification", Str("TFAutoModelForZeroShotImageClassification")>>,
    <<"zero-shot-object-detection", Str("TFAutoModelForZeroShotObjectDetection")>>
    >>

\* the synonym map with an alias mapped to another alias
_SYNONYM_TASK_MAP_chained ==
    "audio-ctc" :> "automatic-speech-recognition" @@
    "causal-lm" :> "text-generation" @@
    "causal-lm-with-past" :> "text-generation-with-past" @@
    "default" :> "feature-extraction" @@
    "default-with-past" :> "feature-extraction-with-past" @@
    "masked-lm" :> "fill-mask" @@
    "mask-generation" :> "feature-extraction" @@
    "sentence-similarity" :> "feature-extraction" @@
    "seq2seq-lm" :> "text2text-generation" @@
    "seq2seq-lm-with-past" :> "text2text-generation-with-past" @@
    "sequence-classification" :> "text-classification" @@
    "speech2seq-lm" :> "automatic-speech-recognition" @@
    "speech2seq-lm-with-past" :> "automatic-speech-recognition-with-past" @@
    "summarization" :> "seq2seq-lm" @@
    "text-to-speech" :> "text-to-audio" @@
    "translation" :> "text2text-generation" @@
    "vision2seq-lm" :> "image-to-text" @@
    "zero-shot-classification" :> "text-classification" @@
    "image-feature-extraction" :> "feature-extraction"

\* _SYNONYM_TASK_MAP (tasks.py 243-263)
_SYNONYM_TASK_MAP ==
    "audio-ctc" :> "automatic-speech-recognition" @@
    "causal-lm" :> "text-generation" @@
    "causal-lm-with-past" :> "text-generation-with-past" @@
    "default" :> "feature-extraction" @@
    "default-with-past" :> "feature-extraction-with-past" @@
    "masked-lm" :> "fill-mask" @@
    "mask-generation" :> "feature-extraction" @@
    "sentence-similarity" :> "feature-extraction" @@
    "seq2seq-lm" :> "text2text-generation" @@
    "seq2seq-lm-with-past" :> "text2text-generation-with-past" @@
    "sequence-classification" :> "text-classification" @@
    "speech2seq-lm" :> "automatic-speech-recognition" @@
    "speech2seq-lm-with-past" :> "automatic-speech-recognition-with-past" @@
    "summarization" :> "text2text-generation" @@
    "text-to-speech" :> "text-to-audio" @@
    "translation" :> "text2text-generation" @@
    "vision2seq-lm" :> "image-to-text" @@
    "zero-shot-classification" :> "text-classification" @@
    "image-feature-extraction" :> "feature-extraction"

\* _LIBRARY_TO_TASKS_TO_MODEL_LOADER_MAP (tasks.py 206-211); the four tables
\* exist only when is_torch_available()
_LIBRARY_TO_TASKS_TO_MODEL_LOADER_MAP(e) ==
    IF e.torch
    THEN [diffusers |-> _DIFFUSERS_TASKS_TO_MODEL_LOADERS,
          sentence_transformers |-> _SENTENCE_TRANSFORMERS_TASKS_TO_MODEL_LOADERS,
          timm |-> _TIMM_TASKS_TO_MODEL_LOADERS,
          transformers |-> _TRANSFORMERS_TASKS_TO_MODEL_LOADERS]
    ELSE <<>>

_LIBRARY_TO_TF_TASKS_TO_MODEL_LOADER_MAP_of_torch(e) ==
    IF e.tf
    THEN [transformers |-> _TRANSFORMERS_TASKS_TO_MODEL_LOADERS]
    ELSE <<>>

\* _LIBRARY_TO_TF_TASKS_TO_MODEL_LOADER_MAP (tasks.py 239-241)
_LIBRARY_TO_TF_TASKS_TO_MODEL_LOADER_MAP(e) ==
    IF e.tf
    THEN [transformers |-> _TRANSFORMERS_TASKS_TO_TF_MODEL_LOADERS]
    ELSE <<>>

\* _CUSTOM_CLASSES (tasks.py 276-282)
_CUSTOM_CLASSES ==
    <<"pt", "pix2struct", "image-to-text">> :> <<"transformers", "Pix2StructForConditionalGeneration">> @@
    <<"pt", "pix2struct", "visual-question-answering">> :> <<"transformers", "Pix2StructForConditionalGeneration">> @@
    <<"pt", "visual-bert", "question-answering">> :> <<"transformers", "VisualBertForQuestionAnswering">> @@
    <<"pt", "vision-encoder-decoder", "document-question-answering">> :> <<"transformers", "VisionEncoderDecoderModel">>

\* _MODEL_TYPE_FOR_DEFAULT_CONFIG (tasks.py 294-296)
_MODEL_TYPE_FOR_DEFAULT_CONFIG == [timm |-> "default-timm-config"]

\* _DIFFUSERS_SUPPORTED_MODEL_TYPE (tasks.py lines 298-319)
_DIFFUSERS_SUPPORTED_MODEL_TYPE(e) ==
    "clip-text-model" :> supported_tasks_mapping(<<S("feature-extraction")>>,
        <<<<"onnx", "CLIPTextOnnxConfig">>>>, e) @@
    "clip-text-with-projection" :> supported_tasks_mapping(<<S("feature-extraction")>>,
        <<<<"onnx", "CLIPTextWithProjectionOnnxConfig">>>>, e) @@
    "unet" :> supported_tasks_mapping(<<S("semantic-segmentation")>>,
        <<<<"onnx", "UNetOnnxConfig">>>>, e) @@
    "vae-encoder" :> supported_tasks_mapping(<<S("semantic-segmentation")>>,
        <<<<"onnx", "VaeEncoderOnnxConfig">>>>, e) @@
    "vae-decoder" :> supported_tasks_mapping(<<S("semantic-segmentation")>>,
        <<<<"onnx", "VaeDecoderOnnxConfig">>>>, e)

\* _TIMM_SUPPORTED_MODEL_TYPE (tasks.py lines 321-323)
_TIMM_SUPPORTED_MODEL_TYPE(e) ==
    "default-timm-config" :> supported_tasks_mapping(<<S("image-classification")>>,
        <<<<"onnx", "TimmDefaultOnnxConfig">>>>, e)

\* _SENTENCE_TRANSFORMERS_SUPPORTED_MODEL_TYPE (tasks.py lines 325-336)
_SENTENCE_TRANSFORMERS_SUPPORTED_MODEL_TYPE(e) ==
    "clip" :> supported_tasks_mapping(<<S("feature-extraction"), S("sentence-similarity")>>,
        <<<<"onnx", "SentenceTransformersCLIPOnnxConfig">>>>, e) @@
    "transformer" :> supported_tasks_mapping(<<S("feature-extraction"), S("sentence-similarity")>>,
        <<<<"onnx", "SentenceTransformersTransformerOnnxConfig">>>>, e)

\* _SUPPORTED_MODEL_TYPE (tasks.py lines 341-1110)
_SUPPORTED_MODEL_TYPE(e) ==
    "audio-spectrogram-transformer" :> supported_tasks_mapping(<<S("feature-extraction"), S("audio-classification")>>,
        <<<<"onnx", "ASTOnnxConfig">>>>, e) @@
    "albert" :> supported_tasks_mapping(<<S("feature-extraction"), S("fill-mask"), S("text-classification"), S("multiple-choice"), S("token-classification"), S("question-answering")>>,
        <<<<"onnx", "AlbertOnnxConfig">>, <<"tflite", "AlbertTFLiteConfig">>>>, e) @@
    "bart" :> supported_tasks_mapping(<<S("feature-extraction"), S("feature-extraction-with-past"), S("text-generation"), S("text-generation-with-past"), S("text2text-generation"), S("text2text-generation-with-past"), S("text-classification"), S("question-answering")>>,
        <<<<"onnx", "BartOnnxConfig">>>>, e) @@
    "beit" :> supported_tasks_mapping(<<S("feature-extraction"), S("image-classification")>>,
        <<<<"onnx", "BeitOnnxConfig">>>>, e) @@
    "bert" :> supported_tasks_mapping(<<S("feature-extraction"), S("fill-mask"), S("text-classification"), S("multiple-choice"), S("token-classification"), S("question-answering")>>,
        <<<<"onnx", "BertOnnxConfig">>, <<"tflite", "BertTFLiteConfig">>>>, e) @@
    "blenderbot" :> supported_tasks_mapping(<<S("feature-extraction"), S("feature-extraction-with-past"), S("text-generation"), S("text-generation-with-past"), S("text2text-generation"), S("text2text-generation-with-past")>>,
        <<<<"onnx", "BlenderbotOnnxConfig">>>>, e) @@
    "blenderbot-small" :> supported_tasks_mapping(<<S("feature-extraction"), S("feature-extraction-with-past"), S("text-generation"), S("text-generation-with-past"), S("text2text-generation"), S("text2text-generation-with-past")>>,
        <<<<"onnx", "BlenderbotSmallOnnxConfig">>>>, e) @@
    "bloom" :> supported_tasks_mapping(<<S("feature-extraction"), S("feature-extraction-with-past"), S("text-generation"), S("text-generation-with-past"), S("text-classification"), S("token-classification")>>,
        <<<<"onnx", "BloomOnnxConfig">>>>, e) @@
    "camembert" :> supported_tasks_mapping(<<S("feature-extraction"), S("fill-mask"), S("text-classification"), S("multiple-choice"), S("token-classification"), S("question-answering")>>,
        <<<<"onnx", "CamembertOnnxConfig">>, <<"tflite", "CamembertTFLiteConfig">>>>, e) @@
    "clip" :> supported_tasks_mapping(<<S("feature-extraction"), S("zero-shot-image-classification")>>,
        <<<<"onnx", "CLIPOnnxConfig">>>>, e) @@
    "codegen" :> supported_tasks_mapping(<<S("feature-extraction"), S("feature-extraction-with-past"), S("text-generation"), S("text-generation-with-past")>>,
        <<<<"onnx", "CodeGenOnnxConfig">>>>, e) @@
    "convbert" :> supported_tasks_mapping(<<S("feature-extraction"), S("fill-mask"), S("text-classification"), S("multiple-choice"), S("token-classification"), S("question-answering")>>,
        <<<<"onnx", "ConvBertOnnxConfig">>, <<"tflite", "ConvBertTFLiteConfig">>>>, e) @@
    "convnext" :> supported_tasks_mapping(<<S("feature-extraction"), S("image-classification")>>,
        <<<<"onnx", "ConvNextOnnxConfig">>>>, e) @@
    "convnextv2" :> supported_tasks_mapping(<<S("feature-extraction"), S("image-classification")>>,
        <<<<"onnx", "ConvNextV2OnnxConfig">>>>, e) @@
    "cvt" :> supported_tasks_mapping(<<S("feature-extraction"), S("image-classification")>>,
        <<<<"onnx", "CvTOnnxConfig">>>>, e) @@
    "data2vec-text" :> supported_tasks_mapping(<<S("feature-extraction"), S("fill-mask"), S("text-classification"), S("multiple-choice"), S("token-classification"), S("question-answering")>>,
        <<<<"onnx", "Data2VecTextOnnxConfig">>>>, e) @@
    "data2vec-vision" :> supported_tasks_mapping(<<S("feature-extraction"), S("image-classification")>>,
        <<<<"onnx", "Data2VecVisionOnnxConfig">>>>, e) @@
    "data2vec-audio" :> supported_tasks_mapping(<<S("feature-extraction"), S("automatic-speech-recognition"), S("audio-classification"), S("audio-frame-classification"), S("audio-xvector")>>,
        <<<<"onnx", "Data2VecAudioOnnxConfig">>>>, e) @@
    "deberta" :> supported_tasks_mapping(<<S("feature-extraction"), S("fill-mask"), S("text-classification"), S("token-classification"), S("question-answering")>>,
        <<<<"onnx", "DebertaOnnxConfig">>, <<"tflite", "DebertaTFLiteConfig">>>>, e) @@
    "deberta-v2" :> supported_tasks_mapping(<<S("feature-extraction"), S("fill-mask"), S("text-classification"), P("multiple-choice", {"onnx"}), S("token-classification"), S("question-answering")>>,
        <<<<"onnx", "DebertaV2OnnxConfig">>, <<"tflite", "DebertaV2TFLiteConfig">>>>, e) @@
    "deit" :> supported_tasks_mapping(<<S("feature-extraction"), S("image-classification"), S("masked-im")>>,
        <<<<"onnx", "DeiTOnnxConfig">>>>, e) @@
    "detr" :> supported_tasks_mapping(<<S("feature-extraction"), S("object-detection"), S("image-segmentation")>>,
        <<<<"onnx", "DetrOnnxConfig">>>>, e) @@
    "distilbert" :> supported_tasks_mapping(<<S("feature-extraction"), S("fill-mask"), S("text-classification"), S("multiple-choice"), S("token-classification"), S("question-answering")>>,
        <<<<"onnx", "DistilBertOnnxConfig">>, <<"tflite", "DistilBertTFLiteConfig">>>>, e) @@
    "donut" :> supported_tasks_mapping(<<S("image-to-text"), S("image-to-text-with-past"), S("document-question-answering"), S("document-question-answering-with-past")>>,
        <<<<"onnx", "VisionEncoderDecoderOnnxConfig">>>>, e) @@
    "donut-swin" :> supported_tasks_mapping(<<S("feature-extraction")>>,
        <<<<"onnx", "DonutSwinOnnxConfig">>>>, e) @@
    "dpt" :> supported_tasks_mapping(<<S("feature-extraction"), S("depth-estimation"), S("image-segmentation"), S("semantic-segmentation")>>,
        <<<<"onnx", "DptOnnxConfig">>>>, e) @@
    "electra" :> supported_tasks_mapping(<<S("feature-extraction"), S("fill-mask"), S("text-classification"), S("multiple-choice"), S("token-classification"), S("question-answering")>>,
        <<<<"onnx", "ElectraOnnxConfig">>, <<"tflite", "ElectraTFLiteConfig">>>>, e) @@
    "encoder-decoder" :> supported_tasks_mapping(<<S("text2text-generation"), S("text2text-generation-with-past")>>,
        <<<<"onnx", "EncoderDecoderOnnxConfig">>>>, e) @@
    "esm" :> supported_tasks_mapping(<<S("feature-extraction"), S("fill-mask"), S("text-classification"), S("token-classification")>>,
        <<<<"onnx", "EsmOnnxConfig">>>>, e) @@
    "falcon" :> supported_tasks_mapping(<<S("feature-extraction"), S("feature-extraction-with-past"), S("question-answering"), S("text-generation"), S("text-generation-with-past"), S("token-classification")>>,
        <<<<"onnx", "FalconOnnxConfig">>>>, e) @@
    "flaubert" :> supported_tasks_mapping(<<S("feature-extraction"), S("fill-mask"), S("text-classification"), S("multiple-choice"), S("token-classification"), S("question-answering")>>,
        <<<<"onnx", "FlaubertOnnxConfig">>, <<"tflite", "FlaubertTFLiteConfig">>>>, e) @@
    "gemma" :> supported_tasks_mapping(<<S("feature-extraction"), S("feature-extraction-with-past"), S("text-generation"), S("text-generation-with-past"), S("text-classification")>>,
        <<<<"onnx", "GemmaOnnxConfig">>>>, e) @@
    "glpn" :> supported_tasks_mapping(<<S("feature-extraction"), S("depth-estimation")>>,
        <<<<"onnx", "GlpnOnnxConfig">>>>, e) @@
    "gpt2" :> supported_tasks_mapping(<<S("feature-extraction"), S("feature-extraction-with-past"), S("text-generation"), S("text-generation-with-past"), S("text-classification"), S("token-classification")>>,
        <<<<"onnx", "GPT2OnnxConfig">>>>, e) @@
    "gpt-bigcode" :> supported_tasks_mapping(<<S("feature-extraction"), S("feature-extraction-with-past"), S("text-generation"), S("text-generation-with-past"), S("text-classification"), S("token-classification")>>,
        <<<<"onnx", "GPTBigCodeOnnxConfig">>>>, e) @@
    "gptj" :> supported_tasks_mapping(<<S("feature-extraction"), S("feature-extraction-with-past"), S("text-generation"), S("text-generation-with-past"), S("question-answering"), S("text-classification")>>,
        <<<<"onnx", "GPTJOnnxConfig">>>>, e) @@
    "gpt-neo" :> supported_tasks_mapping(<<S("feature-extraction"), S("feature-extraction-with-past"), S("text-generation"), S("text-generation-with-past"), S("text-classification")>>,
        <<<<"onnx", "GPTNeoOnnxConfig">>>>, e) @@
    "gpt-neox" :> supported_tasks_mapping(<<S("feature-extraction"), S("feature-extraction-with-past"), S("text-generation"), S("text-generation-with-past"), S("text-classification")>>,
        <<<<"onnx", "GPTNeoXOnnxConfig">>>>, e) @@
    "groupvit" :> supported_tasks_mapping(<<S("feature-extraction")>>,
        <<<<"onnx", "GroupViTOnnxConfig">>>>, e) @@
    "hubert" :> supported_tasks_mapping(<<S("feature-extraction"), S("automatic-speech-recognition"), S("audio-classification")>>,
        <<<<"onnx", "HubertOnnxConfig">>>>, e) @@
    "ibert" :> supported_tasks_mapping(<<S("feature-extraction"), S("fill-mask"), S("text-classification"), S("multiple-choice"), S("token-classification"), S("question-answering")>>,
        <<<<"onnx", "IBertOnnxConfig">>>>, e) @@
    "imagegpt" :> supported_tasks_mapping(<<S("feature-extraction"), S("image-classification")>>,
        <<<<"onnx", "ImageGPTOnnxConfig">>>>, e) @@
    "layoutlm" :> supported_tasks_mapping(<<S("feature-extraction"), S("fill-mask"), S("text-classification"), S("token-classification")>>,
        <<<<"onnx", "LayoutLMOnnxConfig">>>>, e) @@
    "layoutlmv3" :> supported_tasks_mapping(<<S("feature-extraction"), S("question-answering"), S("text-classification"), S("token-classification")>>,
        <<<<"onnx", "LayoutLMv3OnnxConfig">>>>, e) @@
    "lilt" :> supported_tasks_mapping(<<S("feature-extraction"), S("question-answering"), S("text-classification"), S("token-classification")>>,
        <<<<"onnx", "LiltOnnxConfig">>>>, e) @@
    "levit" :> supported_tasks_mapping(<<S("feature-extraction"), S("image-classification")>>,
        <<<<"onnx", "LevitOnnxConfig">>>>, e) @@
    "longt5" :> supported_tasks_mapping(<<S("feature-extraction"), S("feature-extraction-with-past"), S("text2text-generation"), S("text2text-generation-with-past")>>,
        <<<<"onnx", "LongT5OnnxConfig">>>>, e) @@
    "marian" :> supported_tasks_mapping(<<S("feature-extraction"), S("feature-extraction-with-past"), S("text2text-generation"), S("text2text-generation-with-past"), S("text-generation"), S("text-generation-with-past")>>,
        <<<<"onnx", "MarianOnnxConfig">>>>, e) @@
    "markuplm" :> supported_tasks_mapping(<<S("feature-extraction"), S("text-classification"), S("token-classification"), S("question-answering")>>,
        <<<<"onnx", "MarkupLMOnnxConfig">>>>, e) @@
    "mbart" :> supported_tasks_mapping(<<S("feature-extraction"), S("feature-extraction-with-past"), S("text-generation"), S("text-generation-with-past"), S("text2text-generation"), S("text2text-generation-with-past"), S("text-classification"), S("question-answering")>>,
        <<<<"onnx", "MBartOnnxConfig">>>>, e) @@
    "mistral" :> supported_tasks_mapping(<<S("feature-extraction"), S("feature-extraction-with-past"), S("text-generation"), S("text-generation-with-past"), S("text-classification")>>,
        <<<<"onnx", "MistralOnnxConfig">>>>, e) @@
    "mobilebert" :> supported_tasks_mapping(<<S("feature-extraction"), S("fill-mask"), S("text-classification"), S("multiple-choice"), S("token-classification"), S("question-answering")>>,
        <<<<"onnx", "MobileBertOnnxConfig">>, <<"tflite", "MobileBertTFLiteConfig">>>>, e) @@
    "mobilevit" :> supported_tasks_mapping(<<S("feature-extraction"), S("image-classification"), S("image-segmentation")>>,
        <<<<"onnx", "MobileViTOnnxConfig">>>>, e) @@
    "mobilenet-v1" :> supported_tasks_mapping(<<S("feature-extraction"), S("image-classification")>>,
        <<<<"onnx", "MobileNetV1OnnxConfig">>>>, e) @@
    "mobilenet-v2" :> supported_tasks_mapping(<<S("feature-extraction"), S("image-classification")>>,
        <<<<"onnx", "MobileNetV2OnnxConfig">>>>, e) @@
    "mpnet" :> supported_tasks_mapping(<<S("feature-extraction"), S("fill-mask"), S("text-classification"), S("multiple-choice"), S("token-classification"), S("question-answering")>>,
        <<<<"onnx", "MPNetOnnxConfig">>, <<"tflite", "MPNetTFLiteConfig">>>>, e) @@
    "mpt" :> supported_tasks_mapping(<<S("text-generation"), S("text-generation-with-past"), S("text-classification")>>,
        <<<<"onnx", "MPTOnnxConfig">>>>, e) @@
    "mt5" :> supported_tasks_mapping(<<S("feature-extraction"), S("feature-extraction-with-past"), S("text2text-generation"), S("text2text-generation-with-past")>>,
        <<<<"onnx", "MT5OnnxConfig">>>>, e) @@
    "musicgen" :> supported_tasks_mapping(<<S("text-to-audio")>>,
        <<<<"onnx", "MusicgenOnnxConfig">>>>, e) @@
    "m2m-100" :> supported_tasks_mapping(<<S("feature-extraction"), S("feature-extraction-with-past"), S("text2text-generation"), S("text2text-generation-with-past")>>,
        <<<<"onnx", "M2M100OnnxConfig">>>>, e) @@
    "nystromformer" :> supported_tasks_mapping(<<S("feature-extraction"), S("fill-mask"), S("multiple-choice"), S("question-answering"), S("text-classification"), S("token-classification")>>,
        <<<<"onnx", "NystromformerOnnxConfig">>>>, e) @@
    "owlv2" :> supported_tasks_mapping(<<S("feature-extraction"), S("zero-shot-object-detection")>>,
        <<<<"onnx", "OwlV2OnnxConfig">>>>, e) @@
    "owlvit" :> supported_tasks_mapping(<<S("feature-extraction"), S("zero-shot-object-detection")>>,
        <<<<"onnx", "OwlViTOnnxConfig">>>>, e) @@
    "opt" :> supported_tasks_mapping(<<S("feature-extraction"), S("feature-extraction-with-past"), S("text-generation"), S("text-generation-with-past"), S("question-answering"), S("text-classification")>>,
        <<<<"onnx", "OPTOnnxConfig">>>>, e) @@
    "qwen2" :> supported_tasks_mapping(<<S("feature-extraction"), S("feature-extraction-with-past"), S("text-generation"), S("text-generation-with-past"), S("text-classification")>>,
        <<<<"onnx", "Qwen2OnnxConfig">>>>, e) @@
    "llama" :> supported_tasks_mapping(<<S("feature-extraction"), S("feature-extraction-with-past"), S("text-generation"), S("text-generation-with-past"), S("text-classification")>>,
        <<<<"onnx", "LlamaOnnxConfig">>>>, e) @@
    "pegasus" :> supported_tasks_mapping(<<S("feature-extraction"), S("feature-extraction-with-past"), S("text-generation"), S("text-generation-with-past"), S("text2text-generation"), S("text2text-generation-with-past")>>,
        <<<<"onnx", "PegasusOnnxConfig">>>>, e) @@
    "perceiver" :> supported_tasks_mapping(<<S("fill-mask"), S("image-classification"), S("text-classification")>>,
        <<<<"onnx", "PerceiverOnnxConfig">>>>, e) @@
    "phi" :> supported_tasks_mapping(<<S("feature-extraction"), S("feature-extraction-with-past"), S("text-generation"), S("text-generation-with-past"), S("text-classification")>>,
        <<<<"onnx", "PhiOnnxConfig">>>>, e) @@
    "pix2struct" :> supported_tasks_mapping(<<S("image-to-text"), S("image-to-text-with-past"), S("visual-question-answering"), S("visual-question-answering-with-past")>>,
        <<<<"onnx", "Pix2StructOnnxConfig">>>>, e) @@
    "poolformer" :> supported_tasks_mapping(<<S("feature-extraction"), S("image-classification")>>,
        <<<<"onnx", "PoolFormerOnnxConfig">>>>, e) @@
    "regnet" :> supported_tasks_mapping(<<S("feature-extraction"), S("image-classification")>>,
        <<<<"onnx", "RegNetOnnxConfig">>>>, e) @@
    "resnet" :> supported_tasks_mapping(<<S("feature-extraction"), S("image-classification")>>,
        <<<<"onnx", "ResNetOnnxConfig">>, <<"tflite", "ResNetTFLiteConfig">>>>, e) @@
    "roberta" :> supported_tasks_mapping(<<S("feature-extraction"), S("fill-mask"), S("text-classification"), S("multiple-choice"), S("token-classification"), S("question-answering")>>,
        <<<<"onnx", "RobertaOnnxConfig">>, <<"tflite", "RobertaTFLiteConfig">>>>, e) @@
    "roformer" :> supported_tasks_mapping(<<S("feature-extraction"), S("fill-mask"), S("text-classification"), S("token-classification"), S("multiple-choice"), S("question-answering"), S("token-classification")>>,
        <<<<"onnx", "RoFormerOnnxConfig">>, <<"tflite", "RoFormerTFLiteConfig">>>>, e) @@
    "sam" :> supported_tasks_mapping(<<S("feature-extraction")>>,
        <<<<"onnx", "SamOnnxConfig">>>>, e) @@
    "segformer" :> supported_tasks_mapping(<<S("feature-extraction"), S("image-classification"), S("image-segmentation"), S("semantic-segmentation")>>,
        <<<<"onnx", "SegformerOnnxConfig">>>>, e) @@
    "sew" :> supported_tasks_mapping(<<S("feature-extraction"), S("automatic-speech-recognition"), S("audio-classification")>>,
        <<<<"onnx", "SEWOnnxConfig">>>>, e) @@
    "sew-d" :> supported_tasks_mapping(<<S("feature-extraction"), S("automatic-speech-recognition"), S("audio-classification")>>,
        <<<<"onnx", "SEWDOnnxConfig">>>>, e) @@
    "speech-to-text" :> supported_tasks_mapping(<<S("feature-extraction"), S("feature-extraction-with-past"), S("automatic-speech-recognition"), S("automatic-speech-recognition-with-past")>>,
        <<<<"onnx", "Speech2TextOnnxConfig">>>>, e) @@
    "speecht5" :> supported_tasks_mapping(<<S("text-to-audio")>>,
        <<<<"onnx", "SpeechT5OnnxConfig">>>>, e) @@
    "splinter" :> supported_tasks_mapping(<<S("feature-extraction"), S("question-answering")>>,
        <<<<"onnx", "SplinterOnnxConfig">>>>, e) @@
    "squeezebert" :> supported_tasks_mapping(<<S("feature-extraction"), S("fill-mask"), S("text-classification"), S("multiple-choice"), S("token-classification"), S("question-answering")>>,
        <<<<"onnx", "SqueezeBertOnnxConfig">>>>, e) @@
    "swin" :> supported_tasks_mapping(<<S("feature-extraction"), S("image-classification"), S("masked-im")>>,
        <<<<"onnx", "SwinOnnxConfig">>>>, e) @@
    "swin2sr" :> supported_tasks_mapping(<<S("feature-extraction"), S("image-to-image")>>,
        <<<<"onnx", "Swin2srOnnxConfig">>>>, e) @@
    "t5" :> supported_tasks_mapping(<<S("feature-extraction"), S("feature-extraction-with-past"), S("text2text-generation"), S("text2text-generation-with-past")>>,
        <<<<"onnx", "T5OnnxConfig">>>>, e) @@
    "table-transformer" :> supported_tasks_mapping(<<S("feature-extraction"), S("object-detection")>>,
        <<<<"onnx", "TableTransformerOnnxConfig">>>>, e) @@
    "trocr" :> supported_tasks_mapping(<<S("feature-extraction"), S("feature-extraction-with-past"), S("image-to-text"), S("image-to-text-with-past")>>,
        <<<<"onnx", "TrOCROnnxConfig">>>>, e) @@
    "unispeech" :> supported_tasks_mapping(<<S("feature-extraction"), S("automatic-speech-recognition"), S("audio-classification")>>,
        <<<<"onnx", "UniSpeechOnnxConfig">>>>, e) @@
    "unispeech-sat" :> supported_tasks_mapping(<<S("feature-extraction"), S("automatic-speech-recognition"), S("audio-classification"), S("audio-frame-classification"), S("audio-xvector")>>,
        <<<<"onnx", "UniSpeechSATOnnxConfig">>>>, e) @@
    "vision-encoder-decoder" :> supported_tasks_mapping(<<S("image-to-text"), S("image-to-text-with-past"), S("document-question-answering"), S("document-question-answering-with-past")>>,
        <<<<"onnx", "VisionEncoderDecoderOnnxConfig">>>>, e) @@
    "vit" :> supported_tasks_mapping(<<S("feature-extraction"), S("image-classification"), S("masked-im")>>,
        <<<<"onnx", "ViTOnnxConfig">>>>, e) @@
    "wavlm" :> supported_tasks_mapping(<<S("feature-extraction"), S("automatic-speech-recognition"), S("audio-classification"), S("audio-frame-classification"), S("audio-xvector")>>,
        <<<<"onnx", "WavLMOnnxConfig">>>>, e) @@
    "wav2vec2" :> supported_tasks_mapping(<<S("feature-extraction"), S("automatic-speech-recognition"), S("audio-classification"), S("audio-frame-classification"), S("audio-xvector")>>,
        <<<<"onnx", "Wav2Vec2OnnxConfig">>>>, e) @@
    "wav2vec2-conformer" :> supported_tasks_mapping(<<S("feature-extraction"), S("automatic-speech-recognition"), S("audio-classification"), S("audio-frame-classification"), S("audio-xvector")>>,
        <<<<"onnx", "Wav2Vec2ConformerOnnxConfig">>>>, e) @@
    "whisper" :> supported_tasks_mapping(<<S("feature-extraction"), S("feature-extraction-with-past"), S("audio-classification"), S("automatic-speech-recognition"), S("automatic-speech-recognition-with-past")>>,
        <<<<"onnx", "WhisperOnnxConfig">>>>, e) @@
    "xlm" :> supported_tasks_mapping(<<S("feature-extraction"), S("fill-mask"), S("text-classification"), S("multiple-choice"), S("token-classification"), S("question-answering")>>,
        <<<<"onnx", "XLMOnnxConfig">>, <<"tflite", "XLMTFLiteConfig">>>>, e) @@
    "xlm-roberta" :> supported_tasks_mapping(<<S("feature-extraction"), S("fill-mask"), S("text-classification"), S("multiple-choice"), S("token-classification"), S("question-answering")>>,
        <<<<"onnx", "XLMRobertaOnnxConfig">>, <<"tflite", "XLMRobertaTFLiteConfig">>>>, e) @@
    "yolos" :> supported_tasks_mapping(<<S("feature-extraction"), S("object-detection")>>,
        <<<<"onnx", "YolosOnnxConfig">>>>, e)

\* _LIBRARY_TO_SUPPORTED_MODEL_TYPES (tasks.py 1111-1116)
_LIBRARY_TO_SUPPORTED_MODEL_TYPES(e) ==
    [diffusers |-> _DIFFUSERS_SUPPORTED_MODEL_TYPE(e),
     sentence_transformers |-> _SENTENCE_TRANSFORMERS_SUPPORTED_MODEL_TYPE(e),
     timm |-> _TIMM_SUPPORTED_MODEL_TYPE(e),
     transformers |-> _SUPPORTED_MODEL_TYPE(e)]

----------------------------------------------------------------------------
(* TasksManager: methods *)

\* TasksManager.get_all_tasks (tasks.py 1839-1859)
get_all_tasks(e) ==
    LET mapping == IF e.torch THEN _LIBRARY_TO_TASKS_TO_MODEL_LOADER_MAP(e)
                              ELSE _LIBRARY_TO_TF_TASKS_TO_MODEL_LOADER_MAP(e)
    IN UNION {Keys(mapping[library]) : library \in DOMAIN mapping}

\* TasksManager.map_from_synonym (tasks.py 1271-1275)
map_from_synonym(task) ==
    IF task \in DOMAIN _SYNONYM_TASK_MAP THEN _SYNONYM_TASK_MAP[task] ELSE task

\* synonyms_for_task without the removal of the task itself
synonyms_for_task_keeping(task) ==
    {k \in DOMAIN _SYNONYM_TASK_MAP : _SYNONYM_TASK_MAP[k] = task}
        \cup {k \in DOMAIN _SYNONYM_TASK_MAP : _SYNONYM_TASK_MAP[k] = map_from_synonym(task)}

\* TasksManager.synonyms_for_task (tasks.py 1260-1269)
synonyms_for_task(task) ==
    ({k \in DOMAIN _SYNONYM_TASK_MAP : _SYNONYM_TASK_MAP[k] = task}
        \cup {k \in DOMAIN _SYNONYM_TASK_MAP : _SYNONYM_TASK_MAP[k] = map_from_synonym(task)})
    \ {task}

\* the loop with the test of overwrite_existing inverted
RECURSIVE register_tasks_inverted(_, _, _, _, _, _)
register_tasks_inverted(mapping_backend, supported_tasks, i, config_cls, overwrite_existing, e) ==
    IF i > Len(supported_tasks)
    THEN [mapping_backend |-> mapping_backend, outcome |-> Ok(config_cls.name)]
    ELSE LET task == supported_tasks[i]
             normalized_task == StripWithPast(task)
             constructor == make_backend_config_constructor_for_task(config_cls, task)
         IN IF normalized_task \notin get_all_tasks(e)
            THEN [mapping_backend |-> mapping_backend, outcome |-> Raise("ValueError", "decorator")]
            ELSE IF overwrite_existing /\ task \in DOMAIN mapping_backend
            THEN register_tasks_inverted(mapping_backend, supported_tasks, i + 1, config_cls, overwrite_existing, e)
            ELSE IF constructor.kind # "ok"
            THEN [mapping_backend |-> mapping_backend, outcome |-> constructor]
            ELSE register_tasks_inverted((task :> constructor.value) @@ mapping_backend,
                                         supported_tasks, i + 1, config_cls, overwrite_existing, e)

\* the for loop of the decorator (tasks.py 1169-1180) from the i-th task on:
\* the mapping_backend dict as the loop leaves it, and how the loop ended
RECURSIVE register_tasks(_, _, _, _, _, _)
register_tasks(mapping_backend, supported_tasks, i, config_cls, overwrite_existing, e) ==
    IF i > Len(supported_tasks)
    THEN [mapping_backend |-> mapping_backend, outcome |-> Ok(config_cls.name)]
    ELSE LET task == supported_tasks[i]
             normalized_task == StripWithPast(task)
             constructor == make_backend_config_constructor_for_task(config_cls, task)
         IN IF normalized_task \notin get_all_tasks(e)
            THEN [mapping_backend |-> mapping_backend, outcome |-> Raise("ValueError", "decorator")]
            ELSE IF ~overwrite_existing /\ task \in DOMAIN mapping_backend
            THEN register_tasks(mapping_backend, supported_tasks, i + 1, config_cls, overwrite_existing, e)
            ELSE IF constructor.kind # "ok"
            THEN [mapping_backend |-> mapping_backend, outcome |-> constructor]
            ELSE register_tasks((task :> constructor.value) @@ mapping_backend,
                                supported_tasks, i + 1, config_cls, overwrite_existing, e)

\* TasksManager.create_register(backend, overwrite_existing)(model_type,
\* *supported_tasks, library_name)(config_cls) (tasks.py 1159-1185): the
\* registry after the call and the outcome of the call.  mapping.get(backend,
\* {}) is the dict of the table itself when the entry exists, so what the loop
\* wrote before a raise stays in the table; a fresh {} is lost on a raise.
decorator(reg, backend, overwrite_existing, model_type, supported_tasks, library_name, config_cls, e) ==
    IF library_name \notin DOMAIN reg
    THEN [registry |-> reg, outcome |-> Raise("KeyError", "decorator")]
    ELSE
    LET supported_model_type_for_library == reg[library_name]
        has_mapping == model_type \in DOMAIN supported_model_type_for_library
        mapping == IF has_mapping THEN supported_model_type_for_library[model_type] ELSE <<>>
        has_backend == backend \in DOMAIN mapping
        mapping_backend == IF has_backend THEN mapping[backend] ELSE <<>>
        loop == register_tasks(mapping_backend, supported_tasks, 1, config_cls, overwrite_existing, e)
        stored == (model_type :> ((backend :> loop.mapping_backend) @@ mapping))
                      @@ supported_model_type_for_library
    IN IF loop.outcome.kind = "ok" \/ has_backend
       THEN [registry |-> [reg EXCEPT ![library_name] = stored], outcome |-> loop.outcome]
       ELSE [registry |-> reg, outcome |-> loop.outcome]

\* None, and the value of an attribute an object does not have
None == "<None>"
NoneObj == [none |-> TRUE]
Absent == "<absent>"

\* the dict both lookups build when library_name is None (tasks.py 1227-1239,
\* 2043-2055): {**diffusers, **timm, **sentence_transformers, **transformers}
merged_supported_model_type(reg) ==
    reg["transformers"] @@ reg["sentence_transformers"] @@ reg["timm"] @@ reg["diffusers"]

\* TasksManager.get_supported_tasks_for_model_type (tasks.py 1187-1247);
\* model_name only goes into the message of the KeyError
get_supported_tasks_for_model_type(reg, model_type_arg, exporter, library_name_arg) ==
    LET supported_model_type_for_library ==
            IF library_name_arg = None THEN merged_supported_model_type(reg)
                                       ELSE reg[library_name_arg]
        library_name == IF library_name_arg = None THEN "transformers" ELSE library_name_arg
        normalized == UnderscoreToHyphen(Lower(model_type_arg))
        default_model_type ==
            IF library_name \in DOMAIN _MODEL_TYPE_FOR_DEFAULT_CONFIG
            THEN _MODEL_TYPE_FOR_DEFAULT_CONFIG[library_name] ELSE None
        model_type ==
            IF normalized \notin DOMAIN supported_model_type_for_library /\ default_model_type # None
            THEN default_model_type ELSE normalized
    IN IF library_name_arg # None /\ library_name_arg \notin DOMAIN reg
       THEN Raise("KeyError", "library_name")
       ELSE IF model_type \notin DOMAIN supported_model_type_for_library
       THEN Raise("KeyError", "model_type")
       ELSE IF exporter \notin DOMAIN supported_model_type_for_library[model_type]
       THEN Raise("KeyError", "exporter")
       ELSE Ok(supported_model_type_for_library[model_type][exporter])

\* TasksManager.get_supported_model_type_for_task (tasks.py 1249-1258), which
\* reads _SUPPORTED_MODEL_TYPE, the transformers table: the names of the list
\* it returns, or the KeyError of a model type without the exporter
get_supported_model_type_for_task(reg, task, exporter) ==
    LET table == reg["transformers"]
    IN IF \E model_type \in DOMAIN table : exporter \notin DOMAIN table[model_type]
       THEN Raise("KeyError", "exporter")
       ELSE Ok({HyphenToUnderscore(model_type) :
                   model_type \in {m \in DOMAIN table : task \in DOMAIN table[m][exporter]}})

\* partial(exporter_config_constructor, **exporter_config_kwargs)
partial(constructor, kwargs) ==
    [cls |-> constructor.cls, kwargs |-> kwargs @@ constructor.kwargs]

\* TasksManager.get_exporter_config_constructor (tasks.py 2010-2081): the set
\* of outcomes the call can have.  The synonyms are a set, which the for loop
\* walks in no fixed order: any synonym found in model_tasks can be the one
\* the loop stops at.
get_exporter_config_constructor(reg, exporter, model, task_arg, model_type_arg, exporter_config_kwargs, library_name_arg) ==
    LET supported_model_type_for_library ==
            IF library_name_arg = None THEN merged_supported_model_type(reg)
                                       ELSE reg[library_name_arg]
        library_name == IF library_name_arg = None THEN "transformers" ELSE library_name_arg
        from_config ==
            IF model.export_model_type # Absent THEN model.export_model_type ELSE model.model_type
        model_type ==
            IF model_type_arg = None THEN UnderscoreToHyphen(from_config) ELSE model_type_arg
        model_tasks == get_supported_tasks_for_model_type(reg, model_type, exporter, library_name)
        found == synonyms_for_task(task_arg) \cap DOMAIN model_tasks.value
        tasks == IF task_arg \in DOMAIN model_tasks.value THEN {task_arg}
                 ELSE IF found # {} THEN found ELSE {}
        final_model_type ==
            IF model_type \notin DOMAIN supported_model_type_for_library
            THEN _MODEL_TYPE_FOR_DEFAULT_CONFIG[library_name] ELSE model_type
        lookup(task) ==
            IF model_type \notin DOMAIN supported_model_type_for_library
                  /\ library_name \notin DOMAIN _MODEL_TYPE_FOR_DEFAULT_CONFIG
            THEN Raise("KeyError", "_MODEL_TYPE_FOR_DEFAULT_CONFIG")
            ELSE IF final_model_type \notin DOMAIN supported_model_type_for_library
            THEN Raise("KeyError", "supported_model_type_for_library")
            ELSE IF exporter \notin DOMAIN supported_model_type_for_library[final_model_type]
            THEN Raise("KeyError", "supported_model_type_for_library[model_type]")
            ELSE IF task \notin DOMAIN supported_model_type_for_library[final_model_type][exporter]
            THEN Raise("KeyError", "supported_model_type_for_library[model_type][exporter]")
            ELSE LET exporter_config_constructor ==
                         supported_model_type_for_library[final_model_type][exporter][task]
                 IN Ok(IF exporter_config_kwargs # NoneObj
                       THEN partial(exporter_config_constructor, exporter_config_kwargs)
                       ELSE exporter_config_constructor)
    IN IF library_name_arg # None /\ library_name_arg \notin DOMAIN reg
       THEN {Raise("KeyError", "library_name")}
       ELSE IF model = NoneObj /\ model_type_arg = None
       THEN {Raise("ValueError", "model_type or model")}
       ELSE IF model_type_arg = None /\ from_config = None
       THEN {Raise("ValueError", "model type cannot be inferred")}
       ELSE IF model_tasks.kind # "ok"
       THEN {model_tasks}
       ELSE IF tasks = {}
       THEN {Raise("ValueError", "task")}
       ELSE {lookup(task) : task \in tasks}

\* _validate_framework_choice comparing the framework in lower case
_validate_framework_choice_lower(framework, e) ==
    IF Lower(framework) \notin {"pt", "tf"} THEN Raise("ValueError", "_validate_framework_choice")
    ELSE IF framework = "pt" /\ ~e.torch THEN Raise("RuntimeError", "_validate_framework_choice")
    ELSE IF framework = "tf" /\ ~e.tf THEN Raise("RuntimeError", "_validate_framework_choice")
    ELSE Ok(framework)

\* TasksManager._validate_framework_choice (tasks.py 1277-1288): the
\* exception it raises, or Ok
_validate_framework_choice(framework, e) ==
    IF framework \notin {"pt", "tf"} THEN Raise("ValueError", "_validate_framework_choice")
    ELSE IF framework = "pt" /\ ~e.torch THEN Raise("RuntimeError", "_validate_framework_choice")
    ELSE IF framework = "tf" /\ ~e.tf THEN Raise("RuntimeError", "_validate_framework_choice")
    ELSE Ok(framework)

\* module._model_mapping._model_mapping of the transformers auto classes that
\* share a task (tasks.py 1358-1363): the model types each one loads
_model_mapping ==
    [AutoModelForSpeechSeq2Seq |-> {"whisper", "speech_to_text", "speech-encoder-decoder"},
     AutoModelForCTC |-> {"wav2vec2", "hubert", "unispeech_sat"},
     AutoModelForCausalLM |-> {"gpt2", "bart"},
     AutoModelForSeq2SeqLM |-> {"bart", "t5"},
     AutoModelForImageSegmentation |-> {"detr"},
     AutoModelForSemanticSegmentation |-> {"segformer", "beit"},
     AutoModelForTextToSpectrogram |-> {"speecht5"},
     AutoModelForTextToWaveform |-> {"vits", "bark"},
     TFAutoModelForCausalLM |-> {"gpt2"},
     TFAutoModelForSeq2SeqLM |-> {"bart", "t5"}]

RECURSIVE first_autoclass_given_spelling(_, _, _)
first_autoclass_given_spelling(autoclass_names, i, model_type) ==
    IF i > Len(autoclass_names) THEN None
    ELSE IF model_type \in _model_mapping[autoclass_names[i]]
         THEN autoclass_names[i]
         ELSE first_autoclass_given_spelling(autoclass_names, i + 1, model_type)

\* the first autoclass_name of the tuple, from the i-th on, whose mapping holds
\* model_type under either spelling (the for loop of tasks.py 1356-1364)
RECURSIVE first_autoclass(_, _, _)
first_autoclass(autoclass_names, i, model_type) ==
    IF i > Len(autoclass_names) THEN None
    ELSE IF \/ model_type \in _model_mapping[autoclass_names[i]]
            \/ HyphenToUnderscore(model_type) \in _model_mapping[autoclass_names[i]]
         THEN autoclass_names[i]
         ELSE first_autoclass(autoclass_names, i + 1, model_type)

get_model_class_for_task_class_name_first(task_arg, framework, model_type, model_class_name_arg, library, e) ==
    LET task == map_from_synonym(StripWithPast(task_arg))
        valid == _validate_framework_choice(framework, e)
        custom == _CUSTOM_CLASSES[<<framework, model_type, task>>]
        map == IF framework = "pt" THEN _LIBRARY_TO_TASKS_TO_MODEL_LOADER_MAP(e)
                                   ELSE _LIBRARY_TO_TF_TASKS_TO_MODEL_LOADER_MAP(e)
        tasks_to_model_loader == map[library]
        loader == Get(tasks_to_model_loader, task)
        found == first_autoclass(loader.names, 1, model_type)
    IN IF valid.kind # "ok" THEN valid
       ELSE IF library \notin DOMAIN map
       THEN Raise("KeyError", "library")
       ELSE IF model_class_name_arg # None
       THEN Ok(<<library, model_class_name_arg>>)
       ELSE IF <<framework, model_type, task>> \in DOMAIN _CUSTOM_CLASSES
       THEN Ok(<<custom[1], custom[2]>>)
       ELSE IF task \notin Keys(tasks_to_model_loader)
       THEN Raise("KeyError", "task")
       ELSE IF loader.str
       THEN Ok(<<library, loader.names[1]>>)
       ELSE IF library # "transformers"
       THEN Raise("NotImplementedError", "get_model_class_for_task")
       ELSE IF model_type = None
       THEN Ok(<<library, loader.names[1]>>)
       ELSE IF found = None
       THEN Raise("ValueError", "get_model_class_for_task")
       ELSE Ok(<<library, found>>)

\* TasksManager.get_model_class_for_task (tasks.py 1290-1376).  The class
\* getattr(loaded_library, class_name) returns is the pair <<library, class_name>>.
get_model_class_for_task(task_arg, framework, model_type, model_class_name_arg, library, e) ==
    LET task == map_from_synonym(StripWithPast(task_arg))
        valid == _validate_framework_choice(framework, e)
        custom == _CUSTOM_CLASSES[<<framework, model_type, task>>]
        map == IF framework = "pt" THEN _LIBRARY_TO_TASKS_TO_MODEL_LOADER_MAP(e)
                                   ELSE _LIBRARY_TO_TF_TASKS_TO_MODEL_LOADER_MAP(e)
        tasks_to_model_loader == map[library]
        loader == Get(tasks_to_model_loader, task)
        found == first_autoclass(loader.names, 1, model_type)
    IN IF valid.kind # "ok" THEN valid
       ELSE IF <<framework, model_type, task>> \in DOMAIN _CUSTOM_CLASSES
       THEN Ok(<<custom[1], custom[2]>>)
       ELSE IF library \notin DOMAIN map
       THEN Raise("KeyError", "library")
       ELSE IF model_class_name_arg # None
       THEN Ok(<<library, model_class_name_arg>>)
       ELSE IF task \notin Keys(tasks_to_model_loader)
       THEN Raise("KeyError", "task")
       ELSE IF loader.str
       THEN Ok(<<library, loader.names[1]>>)
       ELSE IF library # "transformers"
       THEN Raise("NotImplementedError", "get_model_class_for_task")
       ELSE IF model_type = None
       THEN Ok(<<library, loader.names[1]>>)
       ELSE IF found = None
       THEN Raise("ValueError", "get_model_class_for_task")
       ELSE Ok(<<library, found>>)

----------------------------------------------------------------------------
(* File names, the files of a model and what is inferred from them *)

\* a file name or path is the sequence of its characters, so that
\* str.startswith, str.endswith and slices are computed on the characters
startswith(s, prefix) == Len(prefix) <= Len(s) /\ SubSeq(s, 1, Len(prefix)) = prefix
endswith(s, end) == Len(end) <= Len(s) /\ SubSeq(s, Len(s) - Len(end) + 1, Len(s)) = end

\* Path(name).suffix and Path(name).stem of a name without directories: the
\* suffix starts at the last "." that is neither the first nor the last character
rfind_dot(name) ==
    LET dots == {i \in 1..Len(name) : name[i] = "."}
    IN IF dots = {} THEN 0 ELSE CHOOSE i \in dots : \A j \in dots : j <= i
suffix(name) ==
    IF 1 < rfind_dot(name) /\ rfind_dot(name) < Len(name)
    THEN SubSeq(name, rfind_dot(name), Len(name)) ELSE <<>>
stem(name) ==
    IF 1 < rfind_dot(name) /\ rfind_dot(name) < Len(name)
    THEN SubSeq(name, 1, rfind_dot(name) - 1) ELSE name

\* transformers.utils.WEIGHTS_NAME, SAFE_WEIGHTS_NAME, TF2_WEIGHTS_NAME and
\* optimum.utils.CONFIG_NAME (tasks.py 32-34)
WEIGHTS_NAME == <<"p", "y", "t", "o", "r", "c", "h", "_", "m", "o", "d", "e", "l", ".", "b", "i", "n">>
SAFE_WEIGHTS_NAME == <<"m", "o", "d", "e", "l", ".", "s", "a", "f", "e", "t", "e", "n", "s", "o", "r", "s">>
TF2_WEIGHTS_NAME == <<"t", "f", "_", "m", "o", "d", "e", "l", ".", "h", "5">>
CONFIG_NAME == <<"c", "o", "n", "f", "i", "g", ".", "j", "s", "o", "n">>

\* the two file names the code spells out (tasks.py 1491, 1496, 1753, 1757)
\* and the prefix of tasks.py 1756
model_index_json == <<"m", "o", "d", "e", "l", "_", "i", "n", "d", "e", "x", ".", "j", "s", "o", "n">>
config_sentence_transformers_json == <<"c", "o", "n", "f", "i", "g", "_", "s", "e", "n", "t", "e", "n", "c", "e", "_", "t", "r", "a", "n", "s", "f", "o", "r", "m", "e", "r", "s", ".", "j", "s", "o", "n">>
sentence_prefix == <<"s", "e", "n", "t", "e", "n", "c", "e", "_">>

\* TasksManager.get_model_files (tasks.py 1380-1436).  location is what the
\* file system and the Hub answer for (model_name_or_path, subfolder,
\* cache_dir, revision): is_dir and dir_files for the local directory,
\* list_repo_files for the call to the Hub (its files, or the exception it
\* raises), cache_is_dir and cached_files for the snapshot in the cache.
\* When the Hub cannot be reached and the cache has no directory for the
\* model, all_files was never assigned and the return statement raises.
get_model_files(location, subfolder, use_auth_token, token) ==
    LET listed == location.list_repo_files
        inside(file) == startswith(file, subfolder)
        kept == SelectSeq(listed.value, inside)
        in_subfolder == [i \in 1..Len(kept) |-> SubSeq(kept[i], Len(subfolder) + 2, Len(kept[i]))]
    IN IF use_auth_token # None /\ token # None
       THEN Raise("ValueError", "get_model_files")
       ELSE IF location.is_dir
       THEN Ok([all_files |-> location.dir_files, request_exception |-> None])
       ELSE IF listed.kind = "ok"
       THEN Ok([all_files |-> IF subfolder # <<>> THEN in_subfolder ELSE listed.value,
                request_exception |-> None])
       ELSE IF listed.kind \in {"ConnectionError", "OfflineModeIsEnabled"}
       THEN IF location.cache_is_dir
            THEN Ok([all_files |-> location.cached_files, request_exception |-> listed.kind])
            ELSE Raise("UnboundLocalError", "get_model_files")
       ELSE listed

\* the if/elif chain of determine_framework over the weight file names
\* (tasks.py 1473-1498): the framework it assigns, None in the else branch
framework_from_files_tf_first(all_files) ==
    LET is_pt_weight_file(file) ==
            \/ startswith(file, stem(WEIGHTS_NAME)) /\ endswith(file, suffix(WEIGHTS_NAME))
            \/ startswith(file, stem(SAFE_WEIGHTS_NAME)) /\ endswith(file, suffix(SAFE_WEIGHTS_NAME))
        is_tf_weight_file(file) ==
            startswith(file, stem(TF2_WEIGHTS_NAME)) /\ endswith(file, suffix(TF2_WEIGHTS_NAME))
    IN IF \E i \in DOMAIN all_files : is_tf_weight_file(all_files[i]) THEN "tf"
       ELSE IF \E i \in DOMAIN all_files : is_pt_weight_file(all_files[i]) THEN "pt"
       ELSE IF /\ model_index_json \in Range(all_files)
               /\ \E i \in DOMAIN all_files :
                     \/ endswith(all_files[i], suffix(WEIGHTS_NAME))
                     \/ endswith(all_files[i], suffix(SAFE_WEIGHTS_NAME))
       THEN "pt"
       ELSE IF config_sentence_transformers_json \in Range(all_files) THEN "pt"
       ELSE None

framework_from_files_manifest_alone(all_files) ==
    LET is_pt_weight_file(file) ==
            \/ startswith(file, stem(WEIGHTS_NAME)) /\ endswith(file, suffix(WEIGHTS_NAME))
            \/ startswith(file, stem(SAFE_WEIGHTS_NAME)) /\ endswith(file, suffix(SAFE_WEIGHTS_NAME))
        is_tf_weight_file(file) ==
            startswith(file, stem(TF2_WEIGHTS_NAME)) /\ endswith(file, suffix(TF2_WEIGHTS_NAME))
    IN IF \E i \in DOMAIN all_files : is_pt_weight_file(all_files[i]) THEN "pt"
       ELSE IF \E i \in DOMAIN all_files : is_tf_weight_file(all_files[i]) THEN "tf"
       ELSE IF model_index_json \in Range(all_files) THEN "pt"
       ELSE IF config_sentence_transformers_json \in Range(all_files) THEN "pt"
       ELSE None

framework_from_files(all_files) ==
    LET is_pt_weight_file(file) ==
            \/ startswith(file, stem(WEIGHTS_NAME)) /\ endswith(file, suffix(WEIGHTS_NAME))
            \/ startswith(file, stem(SAFE_WEIGHTS_NAME)) /\ endswith(file, suffix(SAFE_WEIGHTS_NAME))
        is_tf_weight_file(file) ==
            startswith(file, stem(TF2_WEIGHTS_NAME)) /\ endswith(file, suffix(TF2_WEIGHTS_NAME))
    IN IF \E i \in DOMAIN all_files : is_pt_weight_file(all_files[i]) THEN "pt"
       ELSE IF \E i \in DOMAIN all_files : is_tf_weight_file(all_files[i]) THEN "tf"
       ELSE IF /\ model_index_json \in Range(all_files)
               /\ \E i \in DOMAIN all_files :
                     \/ endswith(all_files[i], suffix(WEIGHTS_NAME))
                     \/ endswith(all_files[i], suffix(SAFE_WEIGHTS_NAME))
       THEN "pt"
       ELSE IF config_sentence_transformers_json \in Range(all_files) THEN "pt"
       ELSE None

\* an exception raised with another one in its message
RaiseFrom(exc, where, cause) == [kind |-> exc, at |-> where, cause |-> cause]

\* determine_framework taking the framework from what is installed
determine_framework_by_runtime(location, subfolder, framework_arg, e) ==
    LET files == get_model_files(location, subfolder, None, None)
        framework == framework_from_files(files.value.all_files)
    IN IF framework_arg # None THEN Ok(framework_arg)
       ELSE IF files.kind # "ok" THEN files
       ELSE IF framework = None
       THEN IF files.value.request_exception # None
            THEN RaiseFrom("ConnectionError", "determine_framework", files.value.request_exception)
            ELSE Raise("FileNotFoundError", "determine_framework")
       ELSE IF e.torch THEN Ok("pt")
       ELSE IF e.tf THEN Ok("tf")
       ELSE Raise("EnvironmentError", "determine_framework")

\* TasksManager.determine_framework (tasks.py 1439-1520)
determine_framework(location, subfolder, framework_arg, e) ==
    LET files == get_model_files(location, subfolder, None, None)
        framework == framework_from_files(files.value.all_files)
    IN IF framework_arg # None THEN Ok(framework_arg)
       ELSE IF files.kind # "ok" THEN files
       ELSE IF framework = None
       THEN IF files.value.request_exception # None
            THEN RaiseFrom("ConnectionError", "determine_framework", files.value.request_exception)
            ELSE Raise("FileNotFoundError", "determine_framework")
       ELSE IF e.torch THEN Ok(IF framework # None THEN framework ELSE "pt")
       ELSE IF e.tf THEN Ok(IF framework # None THEN framework ELSE "tf")
       ELSE Raise("EnvironmentError", "determine_framework")

\* infer_library_from_model looking for the sentence-transformers files first
infer_library_from_model_sentence_first(location, subfolder, library_name, use_auth_token, token_arg) ==
    LET token == IF use_auth_token # None THEN use_auth_token ELSE token_arg
        files == get_model_files(location, subfolder, None, token)
        all_files == files.value.all_files
        model_config == location.config
    IN IF use_auth_token # None /\ token_arg # None
       THEN Raise("ValueError", "infer_library_from_model")
       ELSE IF library_name # None THEN Ok(library_name)
       ELSE IF files.kind # "ok" THEN files
       ELSE IF \/ \E i \in DOMAIN all_files : startswith(all_files[i], sentence_prefix)
               \/ config_sentence_transformers_json \in Range(all_files)
       THEN Ok("sentence_transformers")
       ELSE IF model_index_json \in Range(all_files) THEN Ok("diffusers")
       ELSE IF CONFIG_NAME \in Range(all_files)
       THEN IF model_config.kind # "ok" THEN model_config
            ELSE IF model_config.value.pretrained_cfg \/ model_config.value.architecture
            THEN Ok("timm")
            ELSE IF model_config.value._diffusers_version THEN Ok("diffusers")
            ELSE Ok("transformers")
       ELSE Ok("transformers")

\* TasksManager.infer_library_from_model (tasks.py 1700-1785).
\* location.config is what PretrainedConfig.get_config_dict and from_dict give
\* for the model: the attributes the config has, or the exception raised.
infer_library_from_model(location, subfolder, library_name, use_auth_token, token_arg) ==
    LET token == IF use_auth_token # None THEN use_auth_token ELSE token_arg
        files == get_model_files(location, subfolder, None, token)
        all_files == files.value.all_files
        model_config == location.config
    IN IF use_auth_token # None /\ token_arg # None
       THEN Raise("ValueError", "infer_library_from_model")
       ELSE IF library_name # None THEN Ok(library_name)
       ELSE IF files.kind # "ok" THEN files
       ELSE IF model_index_json \in Range(all_files) THEN Ok("diffusers")
       ELSE IF \/ \E i \in DOMAIN all_files : startswith(all_files[i], sentence_prefix)
               \/ config_sentence_transformers_json \in Range(all_files)
       THEN Ok("sentence_transformers")
       ELSE IF CONFIG_NAME \in Range(all_files)
       THEN IF model_config.kind # "ok" THEN model_config
            ELSE IF model_config.value.pretrained_cfg \/ model_config.value.architecture
            THEN Ok("timm")
            ELSE IF model_config.value._diffusers_version THEN Ok("diffusers")
            ELSE Ok("transformers")
       ELSE Ok("transformers")

----------------------------------------------------------------------------
(* The inference of the task *)

\* a dict without the key asked for
AbsentObj == [absent |-> TRUE]

\* the class names of the model that start with "Auto", with "TFAuto", with
\* "TF", and that contain "StableDiffusion" and "StableDiffusionXL"
startswith_Auto ==
    {"AutoModel", "AutoModelForAudioClassification", "AutoModelForAudioFrameClassification",
     "AutoModelForAudioXVector", "AutoModelForCTC", "AutoModelForCausalLM",
     "AutoModelForDepthEstimation", "AutoModelForImageClassification",
     "AutoModelForImageSegmentation", "AutoModelForImageToImage",
     "AutoModelForMaskedImageModeling", "AutoModelForMaskedLM", "AutoModelForMultipleChoice",
     "AutoModelForObjectDetection", "AutoModelForPreTraining", "AutoModelForQuestionAnswering",
     "AutoModelForSemanticSegmentation", "AutoModelForSeq2SeqLM",
     "AutoModelForSequenceClassification", "AutoModelForSpeechSeq2Seq",
     "AutoModelForTextToSpectrogram", "AutoModelForTextToWaveform",
     "AutoModelForTokenClassification", "AutoModelForVision2Seq",
     "AutoModelForZeroShotImageClassification", "AutoModelForZeroShotObjectDetection"}
startswith_TFAuto ==
    {"TFAutoModel", "TFAutoModelForAudioClassification",
     "TFAutoModelForAudioFrameClassification", "TFAutoModelForAudioXVector",
     "TFAutoModelForCausalLM", "TFAutoModelForDocumentQuestionAnswering",
     "TFAutoModelForImageClassification", "TFAutoModelForImageSegmentation",
     "TFAutoModelForMaskedImageModeling", "TFAutoModelForMaskedLM",
     "TFAutoModelForMultipleChoice", "TFAutoModelForObjectDetection",
     "TFAutoModelForQuestionAnswering", "TFAutoModelForSemanticSegmentation",
     "TFAutoModelForSeq2SeqLM", "TFAutoModelForSequenceClassification",
     "TFAutoModelForSpeechSeq2Seq", "TFAutoModelForTokenClassification",
     "TFAutoModelForVision2Seq", "TFAutoModelForZeroShotImageClassification",
     "TFAutoModelForZeroShotObjectDetection"}
startswith_TF ==
    {"TFAutoModel", "TFAutoModelForAudioClassification",
     "TFAutoModelForAudioFrameClassification", "TFAutoModelForAudioXVector",
     "TFAutoModelForCausalLM", "TFAutoModelForDocumentQuestionAnswering",
     "TFAutoModelForImageClassification", "TFAutoModelForImageSegmentation",
     "TFAutoModelForMaskedImageModeling", "TFAutoModelForMaskedLM",
     "TFAutoModelForMultipleChoice", "TFAutoModelForObjectDetection",
     "TFAutoModelForQuestionAnswering", "TFAutoModelForSemanticSegmentation",
     "TFAutoModelForSeq2SeqLM", "TFAutoModelForSequenceClassification",
     "TFAutoModelForSpeechSeq2Seq", "TFAutoModelForTokenClassification",
     "TFAutoModelForVision2Seq", "TFAutoModelForZeroShotImageClassification",
     "TFAutoModelForZeroShotObjectDetection", "TFBertForSequenceClassification", "TFBertModel"}
contains_StableDiffusion ==
    {"StableDiffusionControlNetPipeline", "StableDiffusionPipeline",
     "StableDiffusionXLImg2ImgPipeline", "StableDiffusionXLPipeline"}
contains_StableDiffusionXL ==
    {"StableDiffusionXLImg2ImgPipeline", "StableDiffusionXLPipeline"}

\* f"{class_name_prefix}{auto_model_class_name}" with the prefix "TF"
\* (tasks.py 1628-1632)
with_TF_prefix ==
    "AutoModel" :> "TFAutoModel" @@
    "AutoModelForAudioClassification" :> "TFAutoModelForAudioClassification" @@
    "AutoModelForAudioFrameClassification" :> "TFAutoModelForAudioFrameClassification" @@
    "AutoModelForAudioXVector" :> "TFAutoModelForAudioXVector" @@
    "AutoModelForCTC" :> "TFAutoModelForCTC" @@
    "AutoModelForCausalLM" :> "TFAutoModelForCausalLM" @@
    "AutoModelForDepthEstimation" :> "TFAutoModelForDepthEstimation" @@
    "AutoModelForImageClassification" :> "TFAutoModelForImageClassification" @@
    "AutoModelForImageSegmentation" :> "TFAutoModelForImageSegmentation" @@
    "AutoModelForImageToImage" :> "TFAutoModelForImageToImage" @@
    "AutoModelForMaskedImageModeling" :> "TFAutoModelForMaskedImageModeling" @@
    "AutoModelForMaskedLM" :> "TFAutoModelForMaskedLM" @@
    "AutoModelForMultipleChoice" :> "TFAutoModelForMultipleChoice" @@
    "AutoModelForObjectDetection" :> "TFAutoModelForObjectDetection" @@
    "AutoModelForPreTraining" :> "TFAutoModelForPreTraining" @@
    "AutoModelForQuestionAnswering" :> "TFAutoModelForQuestionAnswering" @@
    "AutoModelForSemanticSegmentation" :> "TFAutoModelForSemanticSegmentation" @@
    "AutoModelForSeq2SeqLM" :> "TFAutoModelForSeq2SeqLM" @@
    "AutoModelForSequenceClassification" :> "TFAutoModelForSequenceClassification" @@
    "AutoModelForSpeechSeq2Seq" :> "TFAutoModelForSpeechSeq2Seq" @@
    "AutoModelForTextToSpectrogram" :> "TFAutoModelForTextToSpectrogram" @@
    "AutoModelForTextToWaveform" :> "TFAutoModelForTextToWaveform" @@
    "AutoModelForTokenClassification" :> "TFAutoModelForTokenClassification" @@
    "AutoModelForVision2Seq" :> "TFAutoModelForVision2Seq" @@
    "AutoModelForZeroShotImageClassification" :> "TFAutoModelForZeroShotImageClassification" @@
    "AutoModelForZeroShotObjectDetection" :> "TFAutoModelForZeroShotObjectDetection"

\* get_model_loaders_to_tasks (tasks.py 126-138).  The loop stores the task
\* under each of its loaders, row after row; a dict keeps a key where it was
\* first stored and holds the value stored last, so the loaders come in the
\* order of their first row (and place in it), each with the task of its last row
get_model_loaders_to_tasks(tasks_to_model_loaders) ==
    LET rows == tasks_to_model_loaders
        loaders == UNION {Range(rows[i][2].names) : i \in DOMAIN rows}
        rows_of(loader) == {i \in DOMAIN rows : loader \in Range(rows[i][2].names)}
        first_row(loader) == CHOOSE i \in rows_of(loader) : \A r \in rows_of(loader) : i <= r
        last_row(loader) == CHOOSE i \in rows_of(loader) : \A r \in rows_of(loader) : r <= i
        place(loader) ==
            LET names == rows[first_row(loader)][2].names
            IN CHOOSE j \in DOMAIN names :
                   /\ names[j] = loader
                   /\ \A k \in DOMAIN names : names[k] = loader => j <= k
        \* each loader with the row and place of its first store and the task
        \* of its last one
        stores == {[loader |-> l, row |-> first_row(l), place |-> place(l),
                    task |-> rows[last_row(l)][1]] : l \in loaders}
        stored_before(other, store) ==
            \/ other.row < store.row
            \/ other.row = store.row /\ other.place < store.place
        ordered == {<<Cardinality({other \in stores : stored_before(other, store)}) + 1,
                      store.loader, store.task>> : store \in stores}
    IN SubSeq([n \in 1..Cardinality(loaders) |->
                  LET item == CHOOSE o \in ordered : o[1] = n
                  IN <<item[2], item[3]>>],
              1, Cardinality(loaders))

\* _LIBRARY_TO_MODEL_LOADERS_TO_TASKS_MAP and
\* _LIBRARY_TO_TF_MODEL_LOADERS_TO_TASKS_MAP (tasks.py 265-274), as the
\* sequence of their values in the order of their keys; without TensorFlow
\* the table of the TensorFlow loaders is the empty dict of tasks.py 153
_LIBRARY_TO_MODEL_LOADERS_TO_TASKS_MAP ==
    <<get_model_loaders_to_tasks(_DIFFUSERS_TASKS_TO_MODEL_LOADERS),
      get_model_loaders_to_tasks(_SENTENCE_TRANSFORMERS_TASKS_TO_MODEL_LOADERS),
      get_model_loaders_to_tasks(_TIMM_TASKS_TO_MODEL_LOADERS),
      get_model_loaders_to_tasks(_TRANSFORMERS_TASKS_TO_MODEL_LOADERS)>>
_LIBRARY_TO_TF_MODEL_LOADERS_TO_TASKS_MAP(e) ==
    <<get_model_loaders_to_tasks(IF e.tf THEN _TRANSFORMERS_TASKS_TO_TF_MODEL_LOADERS ELSE <<>>)>>

\* the auto classes of transformers.models.auto.modeling_auto and
\* modeling_tf_auto with the class names of their _model_mapping (tasks.py
\* 1540-1564); a loader name that is not here is not an attribute of the module
auto_model_mapping_values ==
    [AutoModel |-> {"BertModel", "GPT2Model"},
     AutoModelForAudioClassification |-> {"Wav2Vec2ForSequenceClassification"},
     AutoModelForAudioFrameClassification |-> {"Wav2Vec2ForAudioFrameClassification"},
     AutoModelForAudioXVector |-> {"Wav2Vec2ForXVector"},
     AutoModelForSpeechSeq2Seq |-> {"WhisperForConditionalGeneration"},
     AutoModelForCTC |-> {"Wav2Vec2ForCTC"},
     AutoModelForCausalLM |-> {"GPT2LMHeadModel", "BertLMHeadModel"},
     AutoModelForSeq2SeqLM |-> {"T5ForConditionalGeneration", "BartForConditionalGeneration"},
     AutoModelForDepthEstimation |-> {"DPTForDepthEstimation"},
     AutoModelForMaskedLM |-> {"BertForMaskedLM", "BartForConditionalGeneration"},
     AutoModelForImageClassification |-> {"ViTForImageClassification"},
     AutoModelForImageSegmentation |-> {"DetrForSegmentation"},
     AutoModelForSemanticSegmentation |-> {"SegformerForSemanticSegmentation"},
     AutoModelForImageToImage |-> {"Swin2SRForImageSuperResolution"},
     AutoModelForVision2Seq |-> {"VisionEncoderDecoderModel", "Pix2StructForConditionalGeneration"},
     AutoModelForMaskedImageModeling |-> {"ViTForMaskedImageModeling"},
     AutoModelForMultipleChoice |-> {"BertForMultipleChoice"},
     AutoModelForObjectDetection |-> {"DetrForObjectDetection"},
     AutoModelForQuestionAnswering |-> {"BertForQuestionAnswering"},
     AutoModelForTextToSpectrogram |-> {"SpeechT5ForTextToSpeech"},
     AutoModelForTextToWaveform |-> {"VitsModel"},
     AutoModelForSequenceClassification |-> {"BertForSequenceClassification"},
     AutoModelForTokenClassification |-> {"BertForTokenClassification"},
     AutoModelForZeroShotImageClassification |-> {"CLIPModel"},
     AutoModelForZeroShotObjectDetection |-> {"OwlViTForObjectDetection"},
     TFAutoModel |-> {"TFBertModel"},
     TFAutoModelForCausalLM |-> {"TFGPT2LMHeadModel"},
     TFAutoModelForSeq2SeqLM |-> {"TFT5ForConditionalGeneration"},
     TFAutoModelForMaskedLM |-> {"TFBertForMaskedLM"},
     TFAutoModelForSequenceClassification |-> {"TFBertForSequenceClassification"},
     TFAutoModelForTokenClassification |-> {"TFBertForTokenClassification"},
     TFAutoModelForMultipleChoice |-> {"TFBertForMultipleChoice"},
     TFAutoModelForQuestionAnswering |-> {"TFBertForQuestionAnswering"},
     TFAutoModelForImageClassification |-> {"TFViTForImageClassification"},
     TFAutoModelForSemanticSegmentation |-> {"TFSegformerForSemanticSegmentation"},
     TFAutoModelForMaskedImageModeling |-> {"TFSwinForMaskedImageModeling"},
     TFAutoModelForSpeechSeq2Seq |-> {"TFWhisperForConditionalGeneration"},
     TFAutoModelForAudioClassification |-> {"TFWav2Vec2ForSequenceClassification"},
     TFAutoModelForVision2Seq |-> {"TFVisionEncoderDecoderModel"},
     TFAutoModelForZeroShotImageClassification |-> {"TFCLIPModel"},
     TFAutoModelForDocumentQuestionAnswering |-> {"TFLayoutLMForQuestionAnswering"}]

\* the for loop of _infer_task_from_model_or_model_class (tasks.py 1542-1566)
\* over the (auto_cls_name, task) items: the task of the first item it breaks
\* at, None when it ends without a break
task_of_target(items, target_name) ==
    LET stops(i) ==
            LET auto_cls_name == items[i][1]
            IN IF \/ target_name \in startswith_Auto
                  \/ target_name \in startswith_TFAuto
                  \/ target_name \in contains_StableDiffusion
               THEN target_name = auto_cls_name
               ELSE /\ auto_cls_name \in DOMAIN auto_model_mapping_values
                    /\ target_name \in auto_model_mapping_values[auto_cls_name]
        breaks == {i \in DOMAIN items : stops(i)}
    IN IF breaks = {} THEN None
       ELSE items[CHOOSE i \in breaks : \A j \in breaks : i <= j][2]

\* itertools.chain.from_iterable over a sequence of dicts
RECURSIVE chain(_, _)
chain(dicts, i) == IF i > Len(dicts) THEN <<>> ELSE dicts[i] \o chain(dicts, i + 1)

\* _infer_task_from_model_or_model_class accepting a model with a model class
_infer_task_from_model_or_model_class_lenient(model, model_class, e) ==
    LET target_name == IF model # NoneObj THEN model.class_name ELSE model_class.class_name
        items == chain(_LIBRARY_TO_MODEL_LOADERS_TO_TASKS_MAP
                           \o _LIBRARY_TO_TF_MODEL_LOADERS_TO_TASKS_MAP(e), 1)
        task_name == task_of_target(items, target_name)
    IN IF model = NoneObj /\ model_class = NoneObj
       THEN Raise("ValueError", "none were given")
       ELSE IF task_name = None
       THEN Raise("ValueError", "could not infer the task name")
       ELSE Ok(task_name)

\* TasksManager._infer_task_from_model_or_model_class (tasks.py 1522-1570);
\* a model is given by the name of its class
_infer_task_from_model_or_model_class(model, model_class, e) ==
    LET target_name == IF model # NoneObj THEN model.class_name ELSE model_class.class_name
        items == chain(_LIBRARY_TO_MODEL_LOADERS_TO_TASKS_MAP
                           \o _LIBRARY_TO_TF_MODEL_LOADERS_TO_TASKS_MAP(e), 1)
        task_name == task_of_target(items, target_name)
    IN IF model # NoneObj /\ model_class # NoneObj
       THEN Raise("ValueError", "both were given")
       ELSE IF model = NoneObj /\ model_class = NoneObj
       THEN Raise("ValueError", "none were given")
       ELSE IF task_name = None
       THEN Raise("ValueError", "could not infer the task name")
       ELSE Ok(task_name)

\* the first task of the table whose loader is the class name (tasks.py
\* 1633-1636); a tuple of loaders is equal to no class name
task_of_auto_model(tasks_to_automodels, auto_model_class_name) ==
    LET breaks == {i \in DOMAIN tasks_to_automodels :
                      /\ tasks_to_automodels[i][2].str
                      /\ tasks_to_automodels[i][2].names[1] = auto_model_class_name}
    IN IF breaks = {} THEN None
       ELSE tasks_to_automodels[CHOOSE i \in breaks : \A j \in breaks : i <= j][1]

_infer_task_from_model_name_or_path_any_tag(repo, subfolder, revision, e) ==
    LET info == repo.model_info.value
        library == infer_library_from_model(repo.location, subfolder, None, None, None)
        library_name == library.value
        diffusers == info.config_diffusers
        class_name ==
            IF diffusers.class_name \notin {Absent, None} THEN diffusers.class_name
            ELSE diffusers._class_name
        transformers_info == info.transformersInfo
        tasks_to_automodels ==
            IF e.torch THEN _LIBRARY_TO_TASKS_TO_MODEL_LOADER_MAP(e)[library_name]
                       ELSE _LIBRARY_TO_TF_TASKS_TO_MODEL_LOADER_MAP(e)[library_name]
        auto_model_class_name ==
            IF e.torch \/ transformers_info.auto_model \in startswith_TF
            THEN transformers_info.auto_model
            ELSE IF transformers_info.auto_model \in DOMAIN with_TF_prefix
            THEN with_TF_prefix[transformers_info.auto_model]
            ELSE Absent
        inferred_task_name == task_of_auto_model(tasks_to_automodels, auto_model_class_name)
    IN IF repo.location.is_dir
       THEN Raise("RuntimeError", "local directory")
       ELSE IF subfolder # <<>>
       THEN Raise("RuntimeError", "subfolder")
       ELSE IF repo.model_info.kind \in {"ConnectionError", "OfflineModeIsEnabled"}
       THEN Raise("RuntimeError", "not reachable")
       ELSE IF repo.model_info.kind # "ok"
       THEN repo.model_info
       ELSE IF library.kind # "ok"
       THEN library
       ELSE IF library_name = "diffusers"
       THEN IF diffusers = AbsentObj THEN Raise("KeyError", "diffusers")
            ELSE IF diffusers.class_name \in {Absent, None} /\ diffusers._class_name \in {Absent, None}
            THEN Raise("ValueError", "class name")
            ELSE IF class_name \in contains_StableDiffusionXL THEN Ok("stable-diffusion-xl")
            ELSE Ok("stable-diffusion")
       ELSE IF library_name = "timm"
       THEN Ok("image-classification")
       ELSE IF info.pipeline_tag # None
       THEN Ok(map_from_synonym(info.pipeline_tag))
       ELSE IF transformers_info # NoneObj /\ transformers_info.pipeline_tag \notin {Absent, None}
       THEN Ok(map_from_synonym(transformers_info.pipeline_tag))
       ELSE IF (IF e.torch THEN library_name \notin DOMAIN _LIBRARY_TO_TASKS_TO_MODEL_LOADER_MAP(e)
                           ELSE library_name \notin DOMAIN _LIBRARY_TO_TF_TASKS_TO_MODEL_LOADER_MAP(e))
       THEN Raise("KeyError", "library_name")
       ELSE IF transformers_info = NoneObj
       THEN Raise("TypeError", "transformers_info")
       ELSE IF transformers_info.auto_model = Absent
       THEN Raise("KeyError", "auto_model")
       ELSE IF inferred_task_name = None
       THEN Raise("KeyError", "could not find the proper task name")
       ELSE Ok(inferred_task_name)

\* TasksManager._infer_task_from_model_name_or_path (tasks.py 1572-1640).
\* repo.location is what get_model_files finds for the model, repo.model_info
\* what huggingface_hub.model_info returns or raises: config_diffusers is
\* config["diffusers"] (Absent without the key), pipeline_tag and
\* transformersInfo the attributes of these names, auto_model and the inner
\* pipeline_tag the entries of transformersInfo (Absent without the key).
_infer_task_from_model_name_or_path(repo, subfolder, revision, e) ==
    LET info == repo.model_info.value
        library == infer_library_from_model(repo.location, subfolder, None, None, None)
        library_name == library.value
        diffusers == info.config_diffusers
        class_name ==
            IF diffusers.class_name \notin {Absent, None} THEN diffusers.class_name
            ELSE diffusers._class_name
        transformers_info == info.transformersInfo
        tasks_to_automodels ==
            IF e.torch THEN _LIBRARY_TO_TASKS_TO_MODEL_LOADER_MAP(e)[library_name]
                       ELSE _LIBRARY_TO_TF_TASKS_TO_MODEL_LOADER_MAP(e)[library_name]
        auto_model_class_name ==
            IF e.torch \/ transformers_info.auto_model \in startswith_TF
            THEN transformers_info.auto_model
            ELSE IF transformers_info.auto_model \in DOMAIN with_TF_prefix
            THEN with_TF_prefix[transformers_info.auto_model]
            ELSE Absent
        inferred_task_name == task_of_auto_model(tasks_to_automodels, auto_model_class_name)
    IN IF repo.location.is_dir
       THEN Raise("RuntimeError", "local directory")
       ELSE IF subfolder # <<>>
       THEN Raise("RuntimeError", "subfolder")
       ELSE IF repo.model_info.kind \in {"ConnectionError", "OfflineModeIsEnabled"}
       THEN Raise("RuntimeError", "not reachable")
       ELSE IF repo.model_info.kind # "ok"
       THEN repo.model_info
       ELSE IF library.kind # "ok"
       THEN library
       ELSE IF library_name = "diffusers"
       THEN IF diffusers = AbsentObj THEN Raise("KeyError", "diffusers")
            ELSE IF diffusers.class_name \in {Absent, None} /\ diffusers._class_name \in {Absent, None}
            THEN Raise("ValueError", "class name")
            ELSE IF class_name \in contains_StableDiffusionXL THEN Ok("stable-diffusion-xl")
            ELSE Ok("stable-diffusion")
       ELSE IF library_name = "timm"
       THEN Ok("image-classification")
       ELSE IF info.pipeline_tag # None /\ info.pipeline_tag \notin {"conversational", "object-detection"}
       THEN Ok(map_from_synonym(info.pipeline_tag))
       ELSE IF transformers_info # NoneObj /\ transformers_info.pipeline_tag \notin {Absent, None}
       THEN Ok(map_from_synonym(transformers_info.pipeline_tag))
       ELSE IF (IF e.torch THEN library_name \notin DOMAIN _LIBRARY_TO_TASKS_TO_MODEL_LOADER_MAP(e)
                           ELSE library_name \notin DOMAIN _LIBRARY_TO_TF_TASKS_TO_MODEL_LOADER_MAP(e))
       THEN Raise("KeyError", "library_name")
       ELSE IF transformers_info = NoneObj
       THEN Raise("TypeError", "transformers_info")
       ELSE IF transformers_info.auto_model = Absent
       THEN Raise("KeyError", "auto_model")
       ELSE IF inferred_task_name = None
       THEN Raise("KeyError", "could not find the proper task name")
       ELSE Ok(inferred_task_name)

\* TasksManager.infer_task_from_model (tasks.py 1642-1677): the strategy it
\* runs, None when it runs none, and the outcome.  model.type tells a str, an
\* instance of PreTrainedModel or of TFPreTrainedModel, a class, and any other
\* object apart.
infer_task_from_model(model, subfolder, revision, e) ==
    LET is_torch_pretrained_model == e.torch /\ model.type = "PreTrainedModel"
        is_tf_pretrained_model == e.tf /\ model.type = "TFPreTrainedModel"
    IN IF model.type = "str"
       THEN [ran |-> "_infer_task_from_model_name_or_path",
             outcome |-> _infer_task_from_model_name_or_path(model.repo, subfolder, revision, e)]
       ELSE IF is_torch_pretrained_model \/ is_tf_pretrained_model
       THEN [ran |-> "_infer_task_from_model_or_model_class(model)",
             outcome |-> _infer_task_from_model_or_model_class(model, NoneObj, e)]
       ELSE IF model.type = "class"
       THEN [ran |-> "_infer_task_from_model_or_model_class(model_class)",
             outcome |-> _infer_task_from_model_or_model_class(NoneObj, model, e)]
       ELSE [ran |-> None, outcome |-> Raise("ValueError", "infer_task_from_model")]

----------------------------------------------------------------------------
(* The loading of a model *)

\* TasksManager.standardize_model_attributes (tasks.py 1787-1835) for a
\* library_name that is given, as get_model_from_task gives it: the
\* export_model_type it sets, None when it sets none.  first_module is the
\* class name of model[0] of a sentence_transformers model: whether it has
\* "Transformer" or "CLIP" in it
standardize_model_attributes(model, library_name) ==
    IF library_name = "diffusers" THEN Ok("stable-diffusion")
    ELSE IF library_name = "timm" THEN Ok("pretrained_cfg.architecture")
    ELSE IF library_name = "sentence_transformers"
    THEN IF model.first_module = "Transformer" THEN Ok("transformer")
         ELSE IF model.first_module = "CLIPModel" THEN Ok("clip")
         ELSE Raise("ValueError", "standardize_model_attributes")
    ELSE Ok(None)

\* the kwargs of get_model_from_task (tasks.py 1919): model_kwargs over the
\* three named entries
from_pretrained_kwargs(subfolder, revision, cache_dir, model_kwargs) ==
    model_kwargs @@ [subfolder |-> subfolder, revision |-> revision, cache_dir |-> cache_dir]

\* the kwargs of the first from_pretrained (tasks.py 1963-1964)
first_kwargs(kwargs, framework, torch_dtype) ==
    IF framework = "pt" THEN [torch_dtype |-> torch_dtype] @@ kwargs ELSE kwargs

\* how the first from_pretrained is placed on the device (tasks.py 1966-1980)
first_placement(framework, library_name, torch2) ==
    IF framework # "pt" THEN None
    ELSE IF torch2 /\ library_name # "diffusers" THEN "with device"
    ELSE "to(device)"

\* the kwargs of the from_pretrained in the except clause (tasks.py 1981-1989)
retry_kwargs_unchanged(kwargs, framework) == kwargs

retry_kwargs(kwargs, framework) ==
    IF framework = "pt" THEN [from_tf |-> TRUE] @@ kwargs
    ELSE [from_pt |-> TRUE] @@ kwargs

\* the arguments of the class of a sentence_transformers model (tasks.py
\* 1939-1959), or the ValueError for use_auth_token with token
sentence_transformers_kwargs(model_kwargs, device) ==
    LET pop(key, default) == IF key \in DOMAIN model_kwargs THEN model_kwargs[key] ELSE default
        use_auth_token == pop("use_auth_token", None)
        token == pop("token", None)
    IN IF use_auth_token # None /\ token # None
       THEN Raise("ValueError", "get_model_from_task")
       ELSE Ok([device |-> device, cache_folder |-> pop("cache_folder", None),
                token |-> IF use_auth_token # None THEN use_auth_token ELSE token,
                trust_remote_code |-> pop("trust_remote_code", FALSE)])

\* the end of get_model_from_task before the load (tasks.py 1927-1933): the
\* exception of get_model_class_for_task, or what the load works with
class_or_exception(framework, task, library_name, model_class) ==
    IF model_class.kind # "ok" THEN model_class
    ELSE Ok([framework |-> framework, task |-> task, library_name |-> library_name,
             model_class |-> model_class.value])

\* get_model_from_task (tasks.py 1910-1933) once determine_framework,
\* infer_task_from_model and infer_library_from_model have answered
\* (framework, inferred, library)
class_of_model(task_arg, framework, inferred, library, auto_config, e) ==
    LET original_task == task_arg
        task == IF task_arg = "auto" THEN inferred.value ELSE task_arg
        library_name == library.value
        model_type ==
            IF library_name = "transformers"
            THEN UnderscoreToHyphen(auto_config.value.model_type) ELSE None
        model_class_name ==
            IF /\ library_name = "transformers"
               /\ original_task = "automatic-speech-recognition" \/ task = "automatic-speech-recognition"
               /\ original_task = "auto" /\ auto_config.value.architectures # None
            THEN auto_config.value.architectures[1] ELSE None
    IN IF framework.kind # "ok" THEN framework
       ELSE IF task_arg = "auto" /\ inferred.kind # "ok" THEN inferred
       ELSE IF library.kind # "ok" THEN library
       ELSE IF library_name = "transformers" /\ auto_config.kind # "ok" THEN auto_config
       ELSE class_or_exception(framework.value, task, library_name,
                               get_model_class_for_task(task, framework.value, model_type,
                                                        model_class_name, library_name, e))

\* get_model_from_task up to the class of the model (tasks.py 1906-1933):
\* the framework, the task, the library and the class it loads with, or the
\* exception of the call that raises.  auto_config is what
\* AutoConfig.from_pretrained returns or raises for the model.
get_model_from_task_class(task_arg, repo, subfolder, revision, framework_arg, library_name_arg, auto_config, e) ==
    class_of_model(task_arg,
                   determine_framework(repo.location, subfolder, framework_arg, e),
                   infer_task_from_model([type |-> "str", repo |-> repo], subfolder, revision, e).outcome,
                   infer_library_from_model(repo.location, subfolder, library_name_arg, None, None),
                   auto_config, e)

----------------------------------------------------------------------------
(* Bounds and inputs *)

\* decorators applied in one run of SpecRegister, and before the lookup of Spec
MaxRegistrations == 2
MaxSetup == 1

\* what can be installed; the class body reads
\* _SENTENCE_TRANSFORMERS_TASKS_TO_MODEL_LOADERS (tasks.py 268), which only
\* exists under is_torch_available(), so the module imports only with torch
Envs == {e \in [torch : BOOLEAN, tf : BOOLEAN, onnx : BOOLEAN] : e.torch}

Libraries == {"diffusers", "sentence_transformers", "timm", "transformers"}
Backends == {"onnx", "tflite"}

ConfigA == [name |-> "ConfigA", SUPPORTS_PAST |-> TRUE]
ConfigB == [name |-> "ConfigB", SUPPORTS_PAST |-> FALSE]

\* the arguments of the registrations
RegisterLibraries == {"transformers", "timm"}
RegisterBackends == {"onnx"}
RegisterModelTypes == {"bert", "My_Model"}
RegisterTaskLists == {<<"feature-extraction">>, <<"text-generation-with-past">>,
                      <<"bogus-task">>, <<"feature-extraction", "bogus-task">>,
                      <<"text-generation-with-past", "mask-generation">>}
ConfigClasses == {ConfigA, ConfigB}

\* the arguments of the lookups
LookupLibraries == {"sentence_transformers", "timm", "transformers", None}
LookupModelTypes == {"bert", "BERT", "My_Model", "CLIP"}
LookupTasks == {"feature-extraction", "image-classification", "default", "bogus-task"}
Models == {[none |-> FALSE, export_model_type |-> Absent, model_type |-> "My_Model"],
           [none |-> FALSE, export_model_type |-> "clip", model_type |-> "bert"],
           [none |-> FALSE, export_model_type |-> Absent, model_type |-> None],
           NoneObj}
ExporterConfigKwargs == {NoneObj, [use_past |-> FALSE]}

\* the task names of the tables, with and without "-with-past", and two unknown names
TaskNames ==
    DOMAIN _SYNONYM_TASK_MAP \cup Range(_SYNONYM_TASK_MAP)
        \cup Keys(_TRANSFORMERS_TASKS_TO_MODEL_LOADERS)
        \cup Keys(_TRANSFORMERS_TASKS_TO_TF_MODEL_LOADERS)
        \cup Keys(_DIFFUSERS_TASKS_TO_MODEL_LOADERS)
        \cup DOMAIN WithPastNames \cup {"visual-question-answering", "bogus-task"}

Frameworks == {"pt", "tf", "jax", "PT"}
LoaderModelTypes ==
    {None, "pix2struct", "visual-bert", "visual_bert", "whisper", "wav2vec2", "unispeech-sat",
     "speech-to-text", "bart", "bert"}
LoaderTasks == {"image-to-text", "image-to-text-with-past", "vision2seq-lm",
                "vision2seq-lm-with-past",
                "question-answering", "automatic-speech-recognition",
                "audio-ctc", "text-generation-with-past", "conversational",
                "sentence-similarity", "stable-diffusion", "bogus-task"}
ModelClassNames == {None, "AutoModelForCTC"}

\* file names, and the file lists a model directory, repository or cache holds
pytorch_model_bin == <<"p", "y", "t", "o", "r", "c", "h", "_", "m", "o", "d", "e", "l", ".", "b", "i", "n">>
model_safetensors == <<"m", "o", "d", "e", "l", ".", "s", "a", "f", "e", "t", "e", "n", "s", "o", "r", "s">>
tf_model_h5 == <<"t", "f", "_", "m", "o", "d", "e", "l", ".", "h", "5">>
unet_weights == <<"u", "n", "e", "t", "/", "d", "i", "f", "f", "u", "s", "i", "o", "n", "_", "p", "y", "t", "o", "r", "c", "h", "_", "m", "o", "d", "e", "l", ".", "b", "i", "n">>
config_json == <<"c", "o", "n", "f", "i", "g", ".", "j", "s", "o", "n">>
sentence_bert_config_json == <<"s", "e", "n", "t", "e", "n", "c", "e", "_", "b", "e", "r", "t", "_", "c", "o", "n", "f", "i", "g", ".", "j", "s", "o", "n">>
readme == <<"R", "E", "A", "D", "M", "E", ".", "m", "d">>
FileLists ==
    {<<>>, <<readme>>, <<pytorch_model_bin>>, <<tf_model_h5>>, <<model_safetensors, config_json>>,
     <<tf_model_h5, pytorch_model_bin>>, <<model_index_json, unet_weights>>, <<model_index_json>>,
     <<config_sentence_transformers_json>>, <<config_json>>, <<sentence_bert_config_json, config_json>>,
     <<config_json, sentence_bert_config_json, model_index_json>>,
     <<config_sentence_transformers_json, model_index_json, config_json>>,
     <<tf_model_h5, model_index_json, unet_weights>>}

\* what loading config.json gives: the attributes of the config, or an error
ModelConfigs ==
    {Ok([pretrained_cfg |-> FALSE, architecture |-> FALSE, _diffusers_version |-> FALSE]),
     Ok([pretrained_cfg |-> FALSE, architecture |-> TRUE, _diffusers_version |-> FALSE]),
     Ok([pretrained_cfg |-> FALSE, architecture |-> FALSE, _diffusers_version |-> TRUE]),
     Raise("OSError", "get_config_dict")}

\* a local directory; a repository the Hub lists; a repository the Hub cannot
\* be asked about, with and without a snapshot in the cache; a repository the
\* Hub does not have
Locations ==
    {[is_dir |-> TRUE, dir_files |-> files, list_repo_files |-> Ok(<<>>),
      cache_is_dir |-> FALSE, cached_files |-> <<>>, config |-> config] :
         files \in FileLists, config \in ModelConfigs}
    \cup {[is_dir |-> FALSE, dir_files |-> <<>>, list_repo_files |-> Ok(files),
           cache_is_dir |-> FALSE, cached_files |-> <<>>, config |-> config] :
         files \in FileLists, config \in ModelConfigs}
    \cup {[is_dir |-> FALSE, dir_files |-> <<>>,
           list_repo_files |-> Raise(exc, "list_repo_files"),
           cache_is_dir |-> TRUE, cached_files |-> files, config |-> config] :
         exc \in {"ConnectionError", "OfflineModeIsEnabled"},
         files \in FileLists, config \in ModelConfigs}
    \cup {[is_dir |-> FALSE, dir_files |-> <<>>,
           list_repo_files |-> Raise(exc, "list_repo_files"),
           cache_is_dir |-> FALSE, cached_files |-> <<>>,
           config |-> Raise("OSError", "get_config_dict")] :
         exc \in {"ConnectionError", "OfflineModeIsEnabled", "RepositoryNotFoundError"}}
Subfolders == {<<>>, <<"u", "n", "e", "t">>}
FrameworkArgs == {None, "pt", "tf", "jax"}
LibraryArgs == {None, "timm"}
Tokens == {None, "hf_token"}

\* the files of a repository with subfolders, in the order the Hub lists them,
\* and the repositories that hold some of them
RepositoryFiles ==
    <<<<"m", "o", "d", "e", "l", "_", "i", "n", "d", "e", "x", ".", "j", "s", "o", "n">>, <<"u", "n", "e", "t", "/", "c", "o", "n", "f", "i", "g", ".", "j", "s", "o", "n">>, <<"u", "n", "e", "t", "/", "d", "i", "f", "f", "u", "s", "i", "o", "n", "_", "p", "y", "t", "o", "r", "c", "h", "_", "m", "o", "d", "e", "l", ".", "b", "i", "n">>,
      <<"u", "n", "e", "t", "2", "/", "x">>, <<"u", "n", "e", "t", "_", "c", "o", "n", "f", "i", "g", ".", "j", "s", "o", "n">>, <<"v", "a", "e", "/", "c", "o", "n", "f", "i", "g", ".", "j", "s", "o", "n">>>>
Listings ==
    {LET listed(file) == file \in files IN SelectSeq(RepositoryFiles, listed) :
        files \in SUBSET Range(RepositoryFiles)}
ListedLocations ==
    {[is_dir |-> FALSE, dir_files |-> <<>>, list_repo_files |-> Ok(files),
      cache_is_dir |-> FALSE, cached_files |-> <<>>,
      config |-> Raise("OSError", "get_config_dict")] : files \in Listings}
    \cup {l \in Locations : l.list_repo_files.kind # "ok" /\ l.config.kind # "ok"}
ListedSubfolders == {<<>>, <<"u", "n", "e", "t">>, <<"v", "a", "e">>}

\* the classes of the models and model classes handed to the task inference
ClassNames ==
    {"BertModel", "BertForSequenceClassification", "BartForConditionalGeneration",
     "TFBertModel", "AutoModelForCTC", "StableDiffusionXLPipeline", "Linear"}
ModelInstances ==
    {[type |-> t, class_name |-> n] : t \in {"PreTrainedModel", "TFPreTrainedModel"}, n \in ClassNames}
\* the loaders of the PyTorch table of transformers that stand alone in an entry
SingleLoaders ==
    {row[2].names[1] : row \in {r \in Range(_TRANSFORMERS_TASKS_TO_MODEL_LOADERS) : r[2].str}}
ModelClasses == {[type |-> "class", class_name |-> n] : n \in ClassNames \cup SingleLoaders}
OtherObjects == {[type |-> "object", class_name |-> "Linear"]}

\* what huggingface_hub.model_info gives for a repository
ModelInfos ==
    {Ok([config_diffusers |-> d, pipeline_tag |-> tag, transformersInfo |-> t]) :
        d \in {AbsentObj, [class_name |-> "StableDiffusionXLPipeline", _class_name |-> Absent],
               [class_name |-> Absent, _class_name |-> "StableDiffusionPipeline"],
               [class_name |-> Absent, _class_name |-> Absent]},
        tag \in {None, "text-classification", "sentence-similarity", "conversational",
                 "object-detection"},
        t \in {NoneObj, [pipeline_tag |-> Absent, auto_model |-> "AutoModelForCTC"],
               [pipeline_tag |-> Absent, auto_model |-> "AutoModelForSpeechSeq2Seq"],
               [pipeline_tag |-> Absent, auto_model |-> "AutoModelForCausalLM"],
               [pipeline_tag |-> "masked-lm", auto_model |-> "AutoModelForMaskedLM"],
               [pipeline_tag |-> "object-detection", auto_model |-> "AutoModelForObjectDetection"],
               [pipeline_tag |-> None, auto_model |-> "AutoModelForSequenceClassification"],
               [pipeline_tag |-> Absent, auto_model |-> "BertModel"],
               [pipeline_tag |-> Absent, auto_model |-> Absent]}}
    \cup {Raise("ConnectionError", "model_info"), Raise("RepositoryNotFoundError", "model_info")}

\* the repositories and directories a model name can stand for
RepoFileLists ==
    {<<>>, <<config_json>>, <<model_index_json, unet_weights>>, <<config_sentence_transformers_json>>}
RepoLocations ==
    {l \in Locations :
        /\ l.dir_files \in RepoFileLists /\ l.cached_files \in RepoFileLists
        /\ l.list_repo_files.kind = "ok" => l.list_repo_files.value \in RepoFileLists
        /\ l.list_repo_files.kind # "OfflineModeIsEnabled"
        /\ l.config.kind = "ok" => ~l.config.value._diffusers_version}
Repos == {[location |-> l, model_info |-> i] : l \in RepoLocations, i \in ModelInfos}
ModelNames == {[type |-> "str", repo |-> r] : r \in Repos}

\* the models get_model_from_task is asked for, what AutoConfig.from_pretrained
\* answers for them, the keyword arguments passed on, and what a call of the
\* class of the model, or of its from_pretrained, can end in
LoadTasks ==
    {"feature-extraction", "automatic-speech-recognition", "stable-diffusion",
     "image-classification", "auto"}
LoadFileLists ==
    {<<model_safetensors, config_json>>, <<tf_model_h5>>, <<model_index_json, unet_weights>>,
     <<config_sentence_transformers_json>>}
LoadRepos ==
    {[location |-> l, model_info |-> i] :
        l \in {x \in Locations :
                  /\ ~x.is_dir
                  /\ \/ /\ x.list_repo_files.kind = "ok"
                        /\ x.list_repo_files.value \in LoadFileLists
                        /\ x.config.kind = "ok" /\ ~x.config.value._diffusers_version
                     \/ x.list_repo_files.kind = "RepositoryNotFoundError"},
        i \in {Ok([config_diffusers |-> AbsentObj, pipeline_tag |-> "automatic-speech-recognition",
                   transformersInfo |-> NoneObj]),
               Ok([config_diffusers |-> [class_name |-> "StableDiffusionPipeline", _class_name |-> Absent],
                   pipeline_tag |-> None, transformersInfo |-> NoneObj])}}
AutoConfigs ==
    {Ok([model_type |-> "bert", architectures |-> None]),
     Ok([model_type |-> "whisper", architectures |-> <<"WhisperForConditionalGeneration">>]),
     Raise("OSError", "AutoConfig.from_pretrained")}
ModelKwargs ==
    {<<>>, [trust_remote_code |-> TRUE],
     [use_auth_token |-> "hf_token", token |-> "hf_token"]}
LoadResults == {"ok", "OSError", "ValueError"}
FirstModules == {"Transformer", "CLIPModel", "Dense"}

----------------------------------------------------------------------------
(* The state machine *)

NoCall == [op |-> "none"]

Init ==
    /\ env \in Envs
    /\ registry = _LIBRARY_TO_SUPPORTED_MODEL_TYPES(env)
    /\ call = NoCall
    /\ nregs = 0
    /\ registered = {}

\* a lookup reads the tables and changes none of them: the lookups that can
\* follow a lookup are the ones that can be made in its place, so a run makes
\* its registrations and then one lookup
Lookup == call.op \in {"none", "register"}

\* a decorator of create_register(backend, overwrite_existing) is applied,
\* as the max-th registration at most
RegisterUpTo(max) ==
    /\ Lookup
    /\ nregs < max
    /\ \E backend \in RegisterBackends, overwrite_existing \in BOOLEAN,
          model_type \in RegisterModelTypes, supported_tasks \in RegisterTaskLists,
          library_name \in RegisterLibraries, config_cls \in ConfigClasses :
          LET r == decorator(registry, backend, overwrite_existing, model_type,
                             supported_tasks, library_name, config_cls, env)
          IN /\ registry' = r.registry
             /\ call' = [op |-> "register", backend |-> backend,
                         overwrite_existing |-> overwrite_existing,
                         model_type |-> model_type, supported_tasks |-> supported_tasks,
                         library_name |-> library_name, config_cls |-> config_cls,
                         outcome |-> r.outcome]
             /\ registered' =
                    IF r.outcome.kind # "ok" THEN registered
                    ELSE registered \cup
                         {[library_name |-> library_name, model_type |-> model_type,
                           task |-> supported_tasks[i], backend |-> backend,
                           config_cls |-> config_cls.name, n |-> nregs + 1] :
                              i \in DOMAIN supported_tasks}
    /\ nregs' = nregs + 1
    /\ UNCHANGED env

Register == RegisterUpTo(MaxRegistrations)

Setup == RegisterUpTo(MaxSetup)

\* get_exporter_config_constructor storing the default table of the library
\* under the model type it stands in for
GetExporterConfigConstructor_storing_default ==
    /\ Lookup
    /\ \E exporter \in Backends, task \in LookupTasks,
          model_type \in LookupModelTypes \cup {None},
          exporter_config_kwargs \in ExporterConfigKwargs,
          library_name \in LookupLibraries :
          \E model \in IF model_type = None THEN Models ELSE {NoneObj} :
          \E outcome \in get_exporter_config_constructor(registry, exporter, model, task,
                             model_type, exporter_config_kwargs, library_name) :
             /\ call' = [op |-> "get_exporter_config_constructor", exporter |-> exporter,
                         model |-> model, task |-> task, model_type |-> model_type,
                         exporter_config_kwargs |-> exporter_config_kwargs,
                         library_name |-> library_name, outcome |-> outcome]
             /\ registry' =
                    IF /\ outcome.kind = "ok" /\ model_type # None
                       /\ library_name \in DOMAIN _MODEL_TYPE_FOR_DEFAULT_CONFIG
                       /\ model_type \notin DOMAIN registry[library_name]
                    THEN [registry EXCEPT ![library_name] =
                             (model_type :> registry[library_name][_MODEL_TYPE_FOR_DEFAULT_CONFIG[library_name]])
                                 @@ registry[library_name]]
                    ELSE registry
    /\ UNCHANGED <<env, nregs, registered>>

\* get_exporter_config_constructor is called; model is read only when no
\* model_type is passed
GetExporterConfigConstructor ==
    /\ Lookup
    /\ \E exporter \in Backends, task \in LookupTasks,
          model_type \in LookupModelTypes \cup {None},
          exporter_config_kwargs \in ExporterConfigKwargs,
          library_name \in LookupLibraries :
          \E model \in IF model_type = None THEN Models ELSE {NoneObj} :
          \E outcome \in get_exporter_config_constructor(registry, exporter, model, task,
                             model_type, exporter_config_kwargs, library_name) :
             call' = [op |-> "get_exporter_config_constructor", exporter |-> exporter,
                      model |-> model, task |-> task, model_type |-> model_type,
                      exporter_config_kwargs |-> exporter_config_kwargs,
                      library_name |-> library_name, outcome |-> outcome]
    /\ UNCHANGED <<registry, env, nregs, registered>>

\* get_supported_tasks_for_model_type is called
GetSupportedTasksForModelType ==
    /\ Lookup
    /\ \E model_type \in LookupModelTypes, exporter \in Backends, library_name \in LookupLibraries :
          call' = [op |-> "get_supported_tasks_for_model_type", model_type |-> model_type,
                   exporter |-> exporter, library_name |-> library_name,
                   outcome |-> get_supported_tasks_for_model_type(registry, model_type,
                                   exporter, library_name)]
    /\ UNCHANGED <<registry, env, nregs, registered>>

\* get_supported_model_type_for_task is called
GetSupportedModelTypeForTask ==
    /\ Lookup
    /\ \E task \in LookupTasks, exporter \in Backends :
          call' = [op |-> "get_supported_model_type_for_task", task |-> task,
                   exporter |-> exporter,
                   outcome |-> get_supported_model_type_for_task(registry, task, exporter)]
    /\ UNCHANGED <<registry, env, nregs, registered>>

\* get_all_tasks is called
GetAllTasks ==
    /\ Lookup
    /\ call' = [op |-> "get_all_tasks", outcome |-> Ok(get_all_tasks(env))]
    /\ UNCHANGED <<registry, env, nregs, registered>>

\* map_from_synonym is called
MapFromSynonym ==
    /\ Lookup
    /\ \E task \in TaskNames :
          call' = [op |-> "map_from_synonym", task |-> task,
                   outcome |-> Ok(map_from_synonym(task))]
    /\ UNCHANGED <<registry, env, nregs, registered>>

\* synonyms_for_task is called
SynonymsForTask ==
    /\ Lookup
    /\ \E task \in TaskNames :
          call' = [op |-> "synonyms_for_task", task |-> task,
                   outcome |-> Ok(synonyms_for_task(task))]
    /\ UNCHANGED <<registry, env, nregs, registered>>

\* get_model_class_for_task is called
GetModelClassForTask ==
    /\ Lookup
    /\ \E task \in LoaderTasks, framework \in Frameworks, model_type \in LoaderModelTypes,
          model_class_name \in ModelClassNames, library \in Libraries :
          call' = [op |-> "get_model_class_for_task", task |-> task, framework |-> framework,
                   model_type |-> model_type, model_class_name |-> model_class_name,
                   library |-> library,
                   outcome |-> get_model_class_for_task(task, framework, model_type,
                                   model_class_name, library, env)]
    /\ UNCHANGED <<registry, env, nregs, registered>>

\* get_model_files is called
GetModelFiles ==
    /\ Lookup
    /\ \E location \in ListedLocations, subfolder \in ListedSubfolders,
          use_auth_token \in Tokens, token \in Tokens :
          call' = [op |-> "get_model_files", location |-> location,
                   subfolder |-> subfolder, use_auth_token |-> use_auth_token,
                   token |-> token,
                   outcome |-> get_model_files(location, subfolder, use_auth_token, token)]
    /\ UNCHANGED <<registry, env, nregs, registered>>

\* determine_framework is called
DetermineFramework ==
    /\ Lookup
    /\ \E location \in Locations, subfolder \in Subfolders, framework \in FrameworkArgs :
          call' = [op |-> "determine_framework", location |-> location,
                   subfolder |-> subfolder, framework |-> framework,
                   outcome |-> determine_framework(location, subfolder, framework, env)]
    /\ UNCHANGED <<registry, env, nregs, registered>>

\* infer_library_from_model is called
InferLibraryFromModel ==
    /\ Lookup
    /\ \E location \in Locations, subfolder \in Subfolders, library_name \in LibraryArgs,
          use_auth_token \in Tokens, token \in Tokens :
          call' = [op |-> "infer_library_from_model", location |-> location,
                   subfolder |-> subfolder, library_name |-> library_name,
                   use_auth_token |-> use_auth_token, token |-> token,
                   outcome |-> infer_library_from_model(location, subfolder, library_name,
                                   use_auth_token, token)]
    /\ UNCHANGED <<registry, env, nregs, registered>>

\* infer_task_from_model is called; there is an instance of
\* TFPreTrainedModel only where TensorFlow is installed
InferTaskFromModel ==
    /\ Lookup
    /\ \E model \in ModelNames \cup ModelInstances \cup ModelClasses \cup OtherObjects,
          subfolder \in Subfolders :
          /\ model.type = "TFPreTrainedModel" => env.tf
          /\ LET r == infer_task_from_model(model, subfolder, None, env)
             IN call' = [op |-> "infer_task_from_model", model |-> model,
                         subfolder |-> subfolder, ran |-> r.ran, outcome |-> r.outcome]
    /\ UNCHANGED <<registry, env, nregs, registered>>

\* _infer_task_from_model_or_model_class is called
InferTaskFromModelOrModelClass ==
    /\ Lookup
    /\ \E model \in ModelInstances \cup {NoneObj}, model_class \in ModelClasses \cup {NoneObj} :
          /\ (model # NoneObj /\ model.type = "TFPreTrainedModel") => env.tf
          /\ call' = [op |-> "_infer_task_from_model_or_model_class", model |-> model,
                      model_class |-> model_class,
                      outcome |-> _infer_task_from_model_or_model_class(model, model_class, env)]
    /\ UNCHANGED <<registry, env, nregs, registered>>

\* get_model_from_task is called and runs up to the class of the model
\* (tasks.py 1906-1933); torch2 tells whether torch is at version 2.0 or later
GetModelFromTask ==
    /\ Lookup
    /\ \E task \in LoadTasks, repo \in LoadRepos, framework \in {None, "pt", "tf"},
          library_name \in LibraryArgs, auto_config \in AutoConfigs,
          model_kwargs \in ModelKwargs, torch2 \in BOOLEAN :
          \E class \in {get_model_from_task_class(task, repo, <<>>, None, framework,
                                                  library_name, auto_config, env)} :
             call' = [op |-> "get_model_from_task",
                      pc |-> IF class.kind = "ok" THEN "load" ELSE "done",
                      framework |-> IF class.kind = "ok" THEN class.value.framework ELSE None,
                      library_name |-> IF class.kind = "ok" THEN class.value.library_name ELSE None,
                      model_class |-> IF class.kind = "ok" THEN class.value.model_class ELSE <<>>,
                      model_kwargs |-> model_kwargs,
                      kwargs |-> from_pretrained_kwargs(<<>>, None, "HUGGINGFACE_HUB_CACHE",
                                                        model_kwargs),
                      torch2 |-> torch2,
                      attempts |-> <<>>,
                      standardized |-> FALSE,
                      outcome |-> IF class.kind = "ok" THEN [kind |-> "running"] ELSE class]
    /\ UNCHANGED <<registry, env, nregs, registered>>

\* the model is loaded: the class of a timm or sentence_transformers model is
\* called, or from_pretrained in the try clause (tasks.py 1935-1980)
LoadModel ==
    /\ call.op = "get_model_from_task" /\ call.pc = "load"
    /\ \E result \in LoadResults :
          LET st_kwargs == sentence_transformers_kwargs(call.model_kwargs, None)
              attempt ==
                  IF call.library_name = "timm"
                  THEN [kwargs |-> [pretrained |-> TRUE, exportable |-> TRUE],
                        placement |-> "to(device)", result |-> result]
                  ELSE IF call.library_name = "sentence_transformers"
                  THEN [kwargs |-> st_kwargs.value, placement |-> None, result |-> result]
                  ELSE [kwargs |-> first_kwargs(call.kwargs, call.framework, None),
                        placement |-> first_placement(call.framework, call.library_name,
                                                      call.torch2),
                        result |-> result]
              retried == call.library_name \notin {"timm", "sentence_transformers"}
          IN IF call.library_name = "sentence_transformers" /\ st_kwargs.kind # "ok"
             THEN call' = [call EXCEPT !.pc = "done", !.outcome = st_kwargs]
             ELSE call' = [call EXCEPT
                             !.attempts = Append(@, attempt),
                             !.pc = IF result = "ok" THEN "standardize"
                                    ELSE IF result = "OSError" /\ retried THEN "retry"
                                    ELSE "done",
                             !.outcome = IF result = "ok" \/ (result = "OSError" /\ retried)
                                         THEN @ ELSE Raise(result, "load")]
    /\ UNCHANGED <<registry, env, nregs, registered>>

\* from_pretrained in the except clause (tasks.py 1981-1989)
LoadModelAgain ==
    /\ call.op = "get_model_from_task" /\ call.pc = "retry"
    /\ \E result \in LoadResults :
          call' = [call EXCEPT
                     !.attempts = Append(@, [kwargs |-> retry_kwargs(call.attempts[Len(call.attempts)].kwargs,
                                                                    call.framework),
                                             placement |-> None, result |-> result]),
                     !.pc = IF result = "ok" THEN "standardize" ELSE "done",
                     !.outcome = IF result = "ok" THEN @ ELSE Raise(result, "load")]
    /\ UNCHANGED <<registry, env, nregs, registered>>

\* standardize_model_attributes and the return (tasks.py 1991-1993)
StandardizeModelAttributes ==
    /\ call.op = "get_model_from_task" /\ call.pc = "standardize"
    /\ \E first_module \in FirstModules :
          LET model == [first_module |-> first_module]
              standard == standardize_model_attributes(model, call.library_name)
          IN call' = [call EXCEPT
                        !.standardized = TRUE,
                        !.pc = "done",
                        !.outcome = IF standard.kind = "ok"
                                    THEN Ok([model_class |-> call.model_class,
                                             export_model_type |-> standard.value])
                                    ELSE standard]
    /\ UNCHANGED <<registry, env, nregs, registered>>

\* the registry and its lookups
Next == Setup \/ GetExporterConfigConstructor
Spec == Init /\ [][Next]_vars

\* the registrations alone
NextRegister == Register
SpecRegister == Init /\ [][NextRegister]_vars

\* the task normalizer
NextSynonym == MapFromSynonym \/ SynonymsForTask
SpecSynonym == Init /\ [][NextSynonym]_vars

\* the model loader dispatcher
NextLoader == GetModelClassForTask
SpecLoader == Init /\ [][NextLoader]_vars

\* the registrations and every lookup of the tables
NextTables ==
    \/ Setup
    \/ GetExporterConfigConstructor
    \/ GetSupportedTasksForModelType
    \/ GetSupportedModelTypeForTask
    \/ GetModelClassForTask
    \/ SynonymsForTask
    \/ MapFromSynonym
    \/ GetAllTasks
SpecTables == Init /\ [][NextTables]_vars

\* the inference of the framework and of the library from the files of a model
NextFiles == DetermineFramework \/ InferLibraryFromModel
SpecFiles == Init /\ [][NextFiles]_vars

\* the listing of the files of a model
NextListing == GetModelFiles
SpecListing == Init /\ [][NextListing]_vars

\* the loading of a model
NextLoad == GetModelFromTask \/ LoadModel \/ LoadModelAgain \/ StandardizeModelAttributes
SpecLoad == Init /\ [][NextLoad]_vars

\* the inference of the task
NextTask == InferTaskFromModel \/ InferTaskFromModelOrModelClass
SpecTask == Init /\ [][NextTask]_vars

----------------------------------------------------------------------------
(* Properties *)

\* the lookup get_exporter_config_constructor was the last call
IsLookup == call.op = "get_exporter_config_constructor"

\* the model type the last lookup works with (tasks.py 2060-2071), None when
\* the call stops before it has one
called_model_type ==
    IF call.model_type # None THEN call.model_type
    ELSE IF call.model = NoneObj THEN None
    ELSE IF call.model.export_model_type # Absent
         THEN (IF call.model.export_model_type = None THEN None
               ELSE UnderscoreToHyphen(call.model.export_model_type))
    ELSE IF call.model.model_type = None THEN None
    ELSE UnderscoreToHyphen(call.model.model_type)

called_library == IF call.library_name = None THEN "transformers" ELSE call.library_name

\* the outcome of the last lookup's get_supported_tasks_for_model_type
called_model_tasks ==
    get_supported_tasks_for_model_type(registry, called_model_type, call.exporter, called_library)

\* the last lookup got the task table of its (model_type, exporter)
ReachedTaskTable == IsLookup /\ called_model_type # None /\ called_model_tasks.kind = "ok"

\* a constructor as the last lookup returns it
Returned(constructor) ==
    Ok(IF call.exporter_config_kwargs # NoneObj
       THEN partial(constructor, call.exporter_config_kwargs)
       ELSE constructor)

\* C1: whatever a registration that returned was asked to register, under its
\* library, model type key, task and backend, get_exporter_config_constructor
\* finds: the lookup with these four arguments returns a constructor.
C1_RegisteredIsFound ==
    (/\ IsLookup
     /\ call.model_type # None
     /\ call.library_name # None
     /\ \E r \in registered :
            /\ r.library_name = call.library_name
            /\ r.model_type = call.model_type
            /\ r.task = call.task
            /\ r.backend = call.exporter)
    => call.outcome.kind = "ok"

\* C2: a registration whose task list holds a task unknown to get_all_tasks()
\* raises ValueError and leaves the registry as it was.
C2_UnknownTaskLeavesRegistry ==
    [][(/\ call'.op = "register"
        /\ nregs' = nregs + 1
        /\ \E i \in DOMAIN call'.supported_tasks :
               StripWithPast(call'.supported_tasks[i]) \notin get_all_tasks(env))
       => (call'.outcome.kind = "ValueError" /\ registry' = registry)]_vars

\* C3: when a registration returns, every task of its list that the table
\* already held for its (library, model type, backend) keeps the constructor it
\* had if overwrite_existing is False and holds the constructor built from the
\* new config class if it is True; every other entry of every table is unchanged.
C3_OverwriteExisting ==
    [][(call'.op = "register" /\ nregs' = nregs + 1 /\ call'.outcome.kind = "ok")
       => LET lib == call'.library_name
              mt == call'.model_type
              b == call'.backend
              tasks == Range(call'.supported_tasks)
              had(task) == /\ mt \in DOMAIN registry[lib]
                           /\ b \in DOMAIN registry[lib][mt]
                           /\ task \in DOMAIN registry[lib][mt][b]
          IN /\ \A task \in tasks :
                    had(task) =>
                        registry'[lib][mt][b][task] =
                            IF call'.overwrite_existing
                            THEN make_backend_config_constructor_for_task(call'.config_cls, task).value
                            ELSE registry[lib][mt][b][task]
             /\ \A l \in DOMAIN registry \ {lib} : registry'[l] = registry[l]
             /\ \A m \in DOMAIN registry[lib] \ {mt} :
                    m \in DOMAIN registry'[lib] /\ registry'[lib][m] = registry[lib][m]
             /\ mt \in DOMAIN registry[lib]
                    => \A bk \in DOMAIN registry[lib][mt] \ {b} :
                           /\ bk \in DOMAIN registry'[lib][mt]
                           /\ registry'[lib][mt][bk] = registry[lib][mt][bk]
             /\ (mt \in DOMAIN registry[lib] /\ b \in DOMAIN registry[lib][mt])
                    => \A t \in DOMAIN registry[lib][mt][b] \ tasks :
                           /\ t \in DOMAIN registry'[lib][mt][b]
                           /\ registry'[lib][mt][b][t] = registry[lib][mt][b][t]]_vars

\* C3 witness: ConfigA then ConfigB were registered for one (library, model
\* type, task, backend), the second time with overwrite_existing, and the table
\* holds the constructor built from ConfigB
C3_Witness ==
    /\ call.op = "register"
    /\ call.overwrite_existing
    /\ call.outcome.kind = "ok"
    /\ \E r1, r2 \in registered :
           /\ r1.n = 1 /\ r2.n = 2
           /\ r1.config_cls = "ConfigA" /\ r2.config_cls = "ConfigB"
           /\ r1.model_type = "My_Model"
           /\ <<r1.library_name, r1.model_type, r1.task, r1.backend>>
                  = <<r2.library_name, r2.model_type, r2.task, r2.backend>>
           /\ registry[r2.library_name][r2.model_type][r2.backend][r2.task].cls = "ConfigB"

\* C4: in every reachable registry, every task key, "-with-past" removed, is a
\* member of get_all_tasks() and a fixed point of map_from_synonym.
C4_TableTasksKnownAndCanonical ==
    \A library \in DOMAIN registry :
        \A model_type \in DOMAIN registry[library] :
            \A backend \in DOMAIN registry[library][model_type] :
                \A task \in DOMAIN registry[library][model_type][backend] :
                    /\ StripWithPast(task) \in get_all_tasks(env)
                    /\ map_from_synonym(StripWithPast(task)) = StripWithPast(task)

\* C5: map_from_synonym applied to its own result returns that result, and no
\* value of the synonym map is a key of it.
C5_MapFromSynonymIdempotent ==
    /\ call.op = "map_from_synonym"
           => map_from_synonym(call.outcome.value) = call.outcome.value
    /\ Range(_SYNONYM_TASK_MAP) \cap DOMAIN _SYNONYM_TASK_MAP = {}

\* C5 witness: an alias was mapped to another name
C5_Witness ==
    /\ call.op = "map_from_synonym"
    /\ call.task \in DOMAIN _SYNONYM_TASK_MAP
    /\ call.outcome.value # call.task

\* C6: synonyms_for_task(t) does not hold t, and is the set of the keys mapped
\* to t or to map_from_synonym(t), t removed.
C6_SynonymsForTask ==
    call.op = "synonyms_for_task"
    => /\ call.task \notin call.outcome.value
       /\ call.outcome.value =
              {k \in DOMAIN _SYNONYM_TASK_MAP :
                   \/ _SYNONYM_TASK_MAP[k] = call.task
                   \/ _SYNONYM_TASK_MAP[k] = map_from_synonym(call.task)} \ {call.task}

\* C6 witness: the synonyms of an alias were asked for, the alias being one of
\* the keys mapped to its own canonical task
C6_Witness ==
    /\ call.op = "synonyms_for_task"
    /\ call.task \in DOMAIN _SYNONYM_TASK_MAP
    /\ call.outcome.value # {}

\* C7: when the task is no key of the resolved task table, the lookup returns
\* the constructor stored under one of synonyms_for_task(task) that is a key,
\* and it raises ValueError exactly when neither the task nor a synonym is a key.
C7_SynonymRetry ==
    ReachedTaskTable
    => LET model_tasks == called_model_tasks.value
           found == synonyms_for_task(call.task) \cap DOMAIN model_tasks
       IN /\ call.outcome.kind = "ValueError"
                 <=> (call.task \notin DOMAIN model_tasks /\ found = {})
          /\ (call.task \notin DOMAIN model_tasks /\ found # {})
                 => \E synonym \in found : call.outcome = Returned(model_tasks[synonym])

\* C8: for an alias that is no key of the resolved task table while its
\* canonical task is one, the lookup returns the constructor of the canonical task.
C8_AliasFindsCanonical ==
    (/\ ReachedTaskTable
     /\ call.task \in DOMAIN _SYNONYM_TASK_MAP
     /\ call.task \notin DOMAIN called_model_tasks.value
     /\ map_from_synonym(call.task) \in DOMAIN called_model_tasks.value)
    => call.outcome = Returned(called_model_tasks.value[map_from_synonym(call.task)])

\* C9: with a model_type that is no key of the library's table, the lookup
\* returns the constructor of the library's default model type for the
\* exporter and the task when the library declares one, and raises the
\* KeyError that names the supported model types when it declares none.
C9_DefaultModelType ==
    (/\ IsLookup
     /\ call.model_type # None
     /\ call.library_name # None
     /\ call.model_type \notin DOMAIN registry[call.library_name])
    => IF call.library_name \in DOMAIN _MODEL_TYPE_FOR_DEFAULT_CONFIG
       THEN LET table == registry[call.library_name]
                default == _MODEL_TYPE_FOR_DEFAULT_CONFIG[call.library_name]
            IN (/\ default \in DOMAIN table
                /\ call.exporter \in DOMAIN table[default]
                /\ call.task \in DOMAIN table[default][call.exporter])
               => call.outcome = Returned(table[default][call.exporter][call.task])
       ELSE call.outcome = Raise("KeyError", "model_type")

\* C10: get_model_class_for_task raises ValueError for every framework other
\* than "pt" and "tf", whatever the other arguments.
C10_FrameworkValidated ==
    (call.op = "get_model_class_for_task" /\ call.framework \notin {"pt", "tf"})
    => call.outcome.kind = "ValueError"

\* C10 witness: a call with another framework, for a pair of the custom-class table
C10_Witness ==
    /\ call.op = "get_model_class_for_task"
    /\ call.framework = "jax"
    /\ \E key \in DOMAIN _CUSTOM_CLASSES :
           key[2] = call.model_type /\ key[3] = map_from_synonym(StripWithPast(call.task))
    /\ call.outcome.kind = "ValueError"

----------------------------------------------------------------------------
(* Properties of the inference from the files of a model *)

IsDetermineFramework == call.op = "determine_framework"
IsInferLibrary == call.op = "infer_library_from_model"

\* what get_model_files gave the last call: the listing, or the exception
called_files ==
    get_model_files(call.location, call.subfolder, None,
                    IF IsInferLibrary /\ call.use_auth_token # None THEN call.use_auth_token
                    ELSE IF IsInferLibrary THEN call.token ELSE None)

\* the last call got a file list
Listed == called_files.kind = "ok"
listed_files == Range(called_files.value.all_files)

\* the remote listing of the last call failed on the connection
ListingUnreachable ==
    /\ ~call.location.is_dir
    /\ call.location.list_repo_files.kind \in {"ConnectionError", "OfflineModeIsEnabled"}

\* the name patterns of the weight files
PtWeightFile(file) ==
    \/ startswith(file, <<"p", "y", "t", "o", "r", "c", "h", "_", "m", "o", "d", "e", "l">>) /\ endswith(file, <<".", "b", "i", "n">>)
    \/ startswith(file, <<"m", "o", "d", "e", "l">>) /\ endswith(file, <<".", "s", "a", "f", "e", "t", "e", "n", "s", "o", "r", "s">>)
TfWeightFile(file) == startswith(file, <<"t", "f", "_", "m", "o", "d", "e", "l">>) /\ endswith(file, <<".", "h", "5">>)
AnyWeightExtension(file) == endswith(file, <<".", "b", "i", "n">>) \/ endswith(file, <<".", "s", "a", "f", "e", "t", "e", "n", "s", "o", "r", "s">>)

\* C11: with no explicit framework, determine_framework answers "pt" for a
\* file list with a PyTorch weight file name (pytorch_model*.bin or
\* model*.safetensors), TensorFlow weight files listed or not, and "tf" for a
\* file list with none of them and a TensorFlow weight file name (tf_model*.h5)
C11_WeightFileNames ==
    (IsDetermineFramework /\ call.framework = None /\ Listed)
    => /\ (\E file \in listed_files : PtWeightFile(file)) => call.outcome = Ok("pt")
       /\ ((\A file \in listed_files : ~PtWeightFile(file))
              /\ (\E file \in listed_files : TfWeightFile(file)))
          => call.outcome = Ok("tf")

\* C11 witness: a listing with tf_model.h5 and pytorch_model.bin gave "pt"
C11_Witness ==
    /\ IsDetermineFramework /\ call.framework = None /\ Listed
    /\ {<<"t", "f", "_", "m", "o", "d", "e", "l", ".", "h", "5">>, <<"p", "y", "t", "o", "r", "c", "h", "_", "m", "o", "d", "e", "l", ".", "b", "i", "n">>} \subseteq listed_files
    /\ call.outcome = Ok("pt")

\* C12: with no explicit framework and no weight file name of either
\* framework, determine_framework answers "pt" for a file list with
\* model_index.json and a file ending in .bin or .safetensors, and for one with
\* config_sentence_transformers.json; model_index.json without such a weight
\* file (and without config_sentence_transformers.json) does not give "pt"
C12_ManifestAndSentenceConfig ==
    (/\ IsDetermineFramework /\ call.framework = None /\ Listed
     /\ \A file \in listed_files : ~PtWeightFile(file) /\ ~TfWeightFile(file))
    => /\ (<<"m", "o", "d", "e", "l", "_", "i", "n", "d", "e", "x", ".", "j", "s", "o", "n">> \in listed_files
              /\ \E file \in listed_files : AnyWeightExtension(file))
          => call.outcome = Ok("pt")
       /\ <<"c", "o", "n", "f", "i", "g", "_", "s", "e", "n", "t", "e", "n", "c", "e", "_", "t", "r", "a", "n", "s", "f", "o", "r", "m", "e", "r", "s", ".", "j", "s", "o", "n">> \in listed_files => call.outcome = Ok("pt")
       /\ (/\ <<"m", "o", "d", "e", "l", "_", "i", "n", "d", "e", "x", ".", "j", "s", "o", "n">> \in listed_files
           /\ \A file \in listed_files : ~AnyWeightExtension(file)
           /\ <<"c", "o", "n", "f", "i", "g", "_", "s", "e", "n", "t", "e", "n", "c", "e", "_", "t", "r", "a", "n", "s", "f", "o", "r", "m", "e", "r", "s", ".", "j", "s", "o", "n">> \notin listed_files)
          => call.outcome # Ok("pt")

\* C12 witness: model_index.json with unet/diffusion_pytorch_model.bin gave "pt"
C12_Witness ==
    /\ IsDetermineFramework /\ call.framework = None /\ Listed
    /\ listed_files = {<<"m", "o", "d", "e", "l", "_", "i", "n", "d", "e", "x", ".", "j", "s", "o", "n">>, <<"u", "n", "e", "t", "/", "d", "i", "f", "f", "u", "s", "i", "o", "n", "_", "p", "y", "t", "o", "r", "c", "h", "_", "m", "o", "d", "e", "l", ".", "b", "i", "n">>}
    /\ call.outcome = Ok("pt")

\* C13: whatever determine_framework returns is "pt" or "tf", an explicit
\* framework argument included
C13_ReturnsSupportedFramework ==
    (IsDetermineFramework /\ call.outcome.kind = "ok") => call.outcome.value \in {"pt", "tf"}

\* C14: with no explicit library_name (and at most one of use_auth_token and
\* token), infer_library_from_model answers "diffusers" for every file list
\* with model_index.json, whatever else is listed and whatever config.json
\* holds or raises, and otherwise "sentence_transformers" for every file list
\* with a name starting with "sentence_" or with config_sentence_transformers.json
C14_LibraryFromFileNames ==
    (/\ IsInferLibrary /\ call.library_name = None
     /\ ~(call.use_auth_token # None /\ call.token # None)
     /\ Listed)
    => /\ <<"m", "o", "d", "e", "l", "_", "i", "n", "d", "e", "x", ".", "j", "s", "o", "n">> \in listed_files => call.outcome = Ok("diffusers")
       /\ (/\ <<"m", "o", "d", "e", "l", "_", "i", "n", "d", "e", "x", ".", "j", "s", "o", "n">> \notin listed_files
           /\ \/ \E file \in listed_files : startswith(file, <<"s", "e", "n", "t", "e", "n", "c", "e", "_">>)
              \/ <<"c", "o", "n", "f", "i", "g", "_", "s", "e", "n", "t", "e", "n", "c", "e", "_", "t", "r", "a", "n", "s", "f", "o", "r", "m", "e", "r", "s", ".", "j", "s", "o", "n">> \in listed_files)
          => call.outcome = Ok("sentence_transformers")

\* C14 witness: "diffusers" for a listing that also has a sentence_ file and a
\* config.json that cannot be loaded
C14_Witness ==
    /\ IsInferLibrary /\ call.library_name = None /\ Listed
    /\ {<<"m", "o", "d", "e", "l", "_", "i", "n", "d", "e", "x", ".", "j", "s", "o", "n">>, <<"s", "e", "n", "t", "e", "n", "c", "e", "_", "b", "e", "r", "t", "_", "c", "o", "n", "f", "i", "g", ".", "j", "s", "o", "n">>, <<"c", "o", "n", "f", "i", "g", ".", "j", "s", "o", "n">>} \subseteq listed_files
    /\ call.location.config.kind = "OSError"
    /\ call.outcome = Ok("diffusers")

\* C18: with no explicit framework and no file name pattern matched,
\* determine_framework raises the ConnectionError that carries the cause
\* whenever the remote listing failed on the connection or on offline mode,
\* with or without a directory in the cache, and FileNotFoundError whenever
\* the listing succeeded
C18_UndeterminedFrameworkError ==
    (/\ IsDetermineFramework /\ call.framework = None
     /\ ~(Listed /\ framework_from_files(called_files.value.all_files) # None))
    => /\ ListingUnreachable
          => call.outcome = RaiseFrom("ConnectionError", "determine_framework",
                                      call.location.list_repo_files.kind)
       /\ (call.location.is_dir \/ call.location.list_repo_files.kind = "ok")
          => call.outcome = Raise("FileNotFoundError", "determine_framework")

\* C19: with no library_name (and at most one of use_auth_token and token),
\* infer_library_from_model raises whenever the remote listing failed on the
\* connection or on offline mode: it returns no library name then
C19_ListingFailureSurfaces ==
    (/\ IsInferLibrary /\ call.library_name = None
     /\ ~(call.use_auth_token # None /\ call.token # None)
     /\ ListingUnreachable)
    => call.outcome.kind # "ok"

----------------------------------------------------------------------------
(* Properties of the constructors *)

\* the last registration listed a "-with-past" task for a class without SUPPORTS_PAST
RegisteredPastWithoutSupport ==
    /\ call.op = "register"
    /\ ~call.config_cls.SUPPORTS_PAST
    /\ \E i \in DOMAIN call.supported_tasks : HasWithPast(call.supported_tasks[i])

\* the fixed keyword arguments of every stored constructor: task without
\* "-with-past" and use_past=True under a "-with-past" task, task alone otherwise
StoredConstructorKwargs ==
    \A l \in DOMAIN registry : \A m \in DOMAIN registry[l] :
        \A b \in DOMAIN registry[l][m] : \A task \in DOMAIN registry[l][m][b] :
            LET kwargs == registry[l][m][b][task].kwargs
            IN /\ ~HasWithPast(kwargs.task)
               /\ IF HasWithPast(task)
                  THEN kwargs = [use_past |-> TRUE, task |-> StripWithPast(task)]
                  ELSE kwargs = [task |-> task]

\* C15 as stated: every registration of a "-with-past" task for a class that
\* does not declare SUPPORTS_PAST fails with ValueError, and the stored
\* constructors have task=<task without "-with-past"> with use_past=True for a
\* "-with-past" task and task=<task> alone otherwise
C15_WithPastNeedsSupport ==
    /\ RegisteredPastWithoutSupport => call.outcome.kind = "ValueError"
    /\ StoredConstructorKwargs

\* C15 amended: a registration for a class that does not declare SUPPORTS_PAST
\* fails with ValueError when it lists a "-with-past" task that it does not
\* skip (overwrite_existing is set, or the task is not yet registered for the
\* model type and backend); the stored constructors are as stated
C15_WithPastNeedsSupportUnlessSkipped ==
    /\ []StoredConstructorKwargs
    /\ [][(/\ call'.op = "register" /\ nregs' = nregs + 1
           /\ ~call'.config_cls.SUPPORTS_PAST
           /\ \E i \in DOMAIN call'.supported_tasks :
                 LET task == call'.supported_tasks[i]
                     lib == call'.library_name
                     mt == call'.model_type
                     b == call'.backend
                 IN /\ HasWithPast(task)
                    /\ \/ call'.overwrite_existing
                       \/ mt \notin DOMAIN registry[lib]
                       \/ b \notin DOMAIN registry[lib][mt]
                       \/ task \notin DOMAIN registry[lib][mt][b])
          => call'.outcome.kind = "ValueError"]_vars

\* C15 witness: a class without SUPPORTS_PAST was refused for a "-with-past"
\* task that a class with SUPPORTS_PAST had registered, use_past=True, before
C15_Witness ==
    /\ RegisteredPastWithoutSupport
    /\ call.overwrite_existing
    /\ call.supported_tasks = <<"text-generation-with-past">>
    /\ call.outcome = Raise("ValueError", "make_backend_config_constructor_for_task")
    /\ \E r \in registered :
          /\ r.task = "text-generation-with-past" /\ r.config_cls = "ConfigA"
          /\ r.library_name = call.library_name /\ r.model_type = call.model_type
          /\ registry[r.library_name][r.model_type][r.backend][r.task]
                 = [cls |-> "ConfigA",
                    kwargs |-> [use_past |-> TRUE, task |-> "text-generation"]]

----------------------------------------------------------------------------
(* Properties of the tables as a whole *)

\* C16: only the decorators of create_register change the supported model
\* type tables: every call of get_exporter_config_constructor,
\* get_supported_tasks_for_model_type, get_supported_model_type_for_task,
\* get_model_class_for_task, synonyms_for_task, map_from_synonym and
\* get_all_tasks leaves them as they were, whether it returns or raises.  (The
\* loader tables, the synonym map and the custom classes have no writer at
\* all: they are the same in every state.)
C16_OnlyRegistrationWrites ==
    [][/\ call'.op # "register" => registry' = registry
       /\ registry' # registry => call'.op = "register"]_vars

\* C16 witness: after a registration changed the tables, a lookup under timm
\* of a model type the timm table does not have returned a constructor, the
\* one of the default model type
C16_Witness ==
    /\ IsLookup /\ nregs = 1
    /\ registry # _LIBRARY_TO_SUPPORTED_MODEL_TYPES(env)
    /\ call.library_name = "timm" /\ call.model_type # None
    /\ UnderscoreToHyphen(Lower(call.model_type)) \notin DOMAIN registry["timm"]
    /\ call.model_type \notin DOMAIN registry["timm"]
    /\ call.outcome.kind = "ok"
    /\ call.outcome.value.cls = "TimmDefaultOnnxConfig"

----------------------------------------------------------------------------
(* Properties of the task inference *)

\* the argument of the last infer_task_from_model is an instance of the
\* pretrained model class of an installed framework
IsPretrainedModel ==
    \/ call.model.type = "PreTrainedModel" /\ env.torch
    \/ call.model.type = "TFPreTrainedModel" /\ env.tf

\* C17: _infer_task_from_model_or_model_class raises ValueError when it gets
\* a model and a model class and when it gets neither; infer_task_from_model
\* raises ValueError, running no strategy, for an argument that is not a
\* string, a pretrained model or a class, and for each of the three it runs
\* the strategy of that kind of argument and no other
C17_OneInputShape ==
    /\ call.op = "_infer_task_from_model_or_model_class"
       => /\ (call.model # NoneObj /\ call.model_class # NoneObj)
             => call.outcome.kind = "ValueError"
          /\ (call.model = NoneObj /\ call.model_class = NoneObj)
             => call.outcome.kind = "ValueError"
    /\ call.op = "infer_task_from_model"
       => /\ (call.model.type \notin {"str", "class"} /\ ~IsPretrainedModel)
             => call.ran = None /\ call.outcome.kind = "ValueError"
          /\ call.model.type = "str"
             => call.ran = "_infer_task_from_model_name_or_path"
          /\ IsPretrainedModel
             => /\ call.ran = "_infer_task_from_model_or_model_class(model)"
                /\ call.outcome = _infer_task_from_model_or_model_class(call.model, NoneObj, env)
          /\ call.model.type = "class"
             => /\ call.ran = "_infer_task_from_model_or_model_class(model_class)"
                /\ call.outcome = _infer_task_from_model_or_model_class(NoneObj, call.model, env)

\* C17 witness: a model whose task can be inferred was refused because a
\* model class came with it
C17_Witness ==
    /\ call.op = "_infer_task_from_model_or_model_class"
    /\ call.model # NoneObj /\ call.model_class # NoneObj
    /\ _infer_task_from_model_or_model_class(call.model, NoneObj, env) = Ok("feature-extraction")
    /\ call.outcome = Raise("ValueError", "both were given")

----------------------------------------------------------------------------
(* Properties of the listing of a subfolder *)

\* the path separator of the Hub's file names
InSubfolder(file, subfolder) == startswith(file, subfolder \o <<"/">>)
RelativeTo(file, subfolder) == SubSeq(file, Len(subfolder) + 2, Len(file))

\* C21: for a repository the Hub lists and a subfolder that is not empty,
\* get_model_files returns the files of the repository that are inside the
\* subfolder, and only them, each relative to the subfolder; no returned path
\* starts with "/"
C21_SubfolderFiles ==
    (/\ call.op = "get_model_files" /\ call.outcome.kind = "ok"
     /\ call.location.list_repo_files.kind = "ok" /\ call.subfolder # <<>>)
    => LET listed == Range(call.location.list_repo_files.value)
           returned == Range(call.outcome.value.all_files)
       IN /\ returned = {RelativeTo(file, call.subfolder) :
                            file \in {f \in listed : InSubfolder(f, call.subfolder)}}
          /\ \A file \in returned : ~startswith(file, <<"/">>)

----------------------------------------------------------------------------
(* Properties of the task inference from a repository *)

\* the last call inferred the task of a repository that the Hub lists and
\* describes, with no subfolder
RemoteRepo ==
    /\ call.op = "infer_task_from_model" /\ call.model.type = "str"
    /\ ~call.model.repo.location.is_dir
    /\ call.model.repo.location.list_repo_files.kind = "ok"
    /\ call.model.repo.model_info.kind = "ok"
    /\ call.subfolder = <<>>

called_repo_library ==
    infer_library_from_model(call.model.repo.location, call.subfolder, None, None, None)

\* the repository is one of transformers or of sentence_transformers
TransformersRepo ==
    /\ RemoteRepo
    /\ called_repo_library \in {Ok("transformers"), Ok("sentence_transformers")}

hub_info == call.model.repo.model_info.value
AmbiguousTags == {"conversational", "object-detection"}

\* the repository has a pipeline_tag that is not one of the ambiguous two
UsableTag == hub_info.pipeline_tag # None /\ hub_info.pipeline_tag \notin AmbiguousTags

\* transformersInfo is there and has a pipeline_tag
LibraryTag ==
    /\ hub_info.transformersInfo # NoneObj
    /\ hub_info.transformersInfo.pipeline_tag \notin {Absent, None}

\* the final fallback is reached
FinalFallback == TransformersRepo /\ ~UsableTag /\ ~LibraryTag

\* the entry of the task in the loader table of the library is the class
\* name, or holds it
loader_rows == _LIBRARY_TO_TASKS_TO_MODEL_LOADER_MAP(env)[called_repo_library.value]
TaskEntryIs(task, name) ==
    \E i \in DOMAIN loader_rows :
        /\ loader_rows[i][1] = task
        /\ loader_rows[i][2].str /\ loader_rows[i][2].names[1] = name
TaskEntryHolds(task, name) ==
    \E i \in DOMAIN loader_rows :
        loader_rows[i][1] = task /\ name \in Range(loader_rows[i][2].names)

\* C22: for a repository of transformers or sentence_transformers the task is
\* map_from_synonym of the repository's pipeline_tag when it has one that is
\* neither "conversational" nor "object-detection"; otherwise map_from_synonym
\* of the pipeline_tag of transformersInfo when it has one; otherwise a task
\* whose loader is the auto_model of transformersInfo.  A returned
\* "conversational" or "object-detection" therefore comes from transformersInfo,
\* never from the repository's pipeline_tag
C22_TaskPriority ==
    TransformersRepo
    => /\ UsableTag => call.outcome = Ok(map_from_synonym(hub_info.pipeline_tag))
       /\ (~UsableTag /\ LibraryTag)
          => call.outcome = Ok(map_from_synonym(hub_info.transformersInfo.pipeline_tag))
       /\ (~UsableTag /\ ~LibraryTag /\ call.outcome.kind = "ok")
          => /\ hub_info.transformersInfo # NoneObj
             /\ TaskEntryIs(call.outcome.value, hub_info.transformersInfo.auto_model)
       /\ (call.outcome.kind = "ok" /\ call.outcome.value \in AmbiguousTags)
          => /\ hub_info.transformersInfo # NoneObj
             /\ IF LibraryTag
                THEN map_from_synonym(hub_info.transformersInfo.pipeline_tag) = call.outcome.value
                ELSE TaskEntryIs(call.outcome.value, hub_info.transformersInfo.auto_model)

\* C22 witness: the repository says "conversational" and transformersInfo
\* "masked-lm": the task is "fill-mask"
C22_Witness ==
    /\ TransformersRepo
    /\ hub_info.pipeline_tag = "conversational"
    /\ LibraryTag /\ hub_info.transformersInfo.pipeline_tag = "masked-lm"
    /\ call.outcome = Ok("fill-mask")

\* C23: in the final fallback, for every auto_model that the loader table of
\* the library has, as the loader of a task or as one of the loaders of a
\* task, a task is returned whose entry holds that class name
C23_ReverseLookupFindsEveryLoader ==
    (/\ FinalFallback
     /\ hub_info.transformersInfo # NoneObj
     /\ \E i \in DOMAIN loader_rows :
           hub_info.transformersInfo.auto_model \in Range(loader_rows[i][2].names))
    => /\ call.outcome.kind = "ok"
       /\ TaskEntryHolds(call.outcome.value, hub_info.transformersInfo.auto_model)

\* C24: when the final fallback finds no task (transformersInfo is None, has
\* no auto_model, or its auto_model is the loader of no task), the call raises
\* KeyError and nothing else
C24_NoTaskIsKeyError ==
    (FinalFallback /\ call.outcome.kind # "ok") => call.outcome.kind = "KeyError"

----------------------------------------------------------------------------
(* Properties of the model class of a task *)

IsGetModelClass == call.op = "get_model_class_for_task"

\* the key of the last get_model_class_for_task in the custom classes
called_custom_key ==
    <<call.framework, call.model_type, map_from_synonym(StripWithPast(call.task))>>

\* the entry of the task of the last get_model_class_for_task in the loader
\* table of its framework and library
called_loader_table ==
    (IF call.framework = "pt" THEN _LIBRARY_TO_TASKS_TO_MODEL_LOADER_MAP(env)
                              ELSE _LIBRARY_TO_TF_TASKS_TO_MODEL_LOADER_MAP(env))[call.library]
called_loader == Get(called_loader_table, map_from_synonym(StripWithPast(call.task)))

\* C25: when (framework, model_type, task), with "-with-past" taken off the
\* task and the task mapped through map_from_synonym, is a key of the custom
\* classes, get_model_class_for_task returns the custom class whatever
\* model_class_name and library are; when it is not, what it returns is the
\* class of the model_class_name argument, or one of the loaders of the task,
\* in the library argument
C25_CustomClassFirst ==
    IsGetModelClass
    => /\ called_custom_key \in DOMAIN _CUSTOM_CLASSES
          => call.outcome = Ok(_CUSTOM_CLASSES[called_custom_key])
       /\ (called_custom_key \notin DOMAIN _CUSTOM_CLASSES /\ call.outcome.kind = "ok")
          => /\ call.outcome.value[1] = call.library
             /\ IF call.model_class_name # None
                THEN call.outcome.value[2] = call.model_class_name
                ELSE call.outcome.value[2] \in Range(called_loader.names)

\* C25 witness: the custom class of pix2struct was returned for a synonym of
\* its task with "-with-past", a model_class_name and another library
C25_Witness ==
    /\ IsGetModelClass
    /\ call.task = "vision2seq-lm-with-past" /\ call.model_type = "pix2struct"
    /\ call.model_class_name = "AutoModelForCTC" /\ call.library = "timm"
    /\ call.outcome = Ok(<<"transformers", "Pix2StructForConditionalGeneration">>)

----------------------------------------------------------------------------
(* Properties of the loader tables *)

\* the loader tables of the installed frameworks
loader_maps ==
    [pt |-> _LIBRARY_TO_TASKS_TO_MODEL_LOADER_MAP(env),
     tf |-> _LIBRARY_TO_TF_TASKS_TO_MODEL_LOADER_MAP(env)]

\* the (framework, library, task) whose entry is a tuple of loaders
SeveralLoaders ==
    UNION {UNION {{<<framework, library, row[1]>> :
                      row \in {r \in Range(loader_maps[framework][library]) : ~r[2].str}} :
                  library \in DOMAIN loader_maps[framework]} :
           framework \in DOMAIN loader_maps}

\* C26 as stated: in every loader table, of PyTorch and of TensorFlow and of
\* every library, the only entry with several loaders is the one of
\* "automatic-speech-recognition" under transformers
C26_OnlySpeechRecognitionHasSeveral ==
    \A entry \in SeveralLoaders :
        entry[2] = "transformers" /\ entry[3] = "automatic-speech-recognition"

\* C26 amended: the entries with several loaders are the ones of
\* "automatic-speech-recognition", "conversational", "image-segmentation" and
\* "text-to-audio" in the PyTorch table of transformers and the one of
\* "conversational" in its TensorFlow table; every other task of every table
\* has one loader
C26_TasksWithSeveralLoaders ==
    SeveralLoaders =
        {<<"pt", "transformers", task>> :
            task \in {"automatic-speech-recognition", "conversational",
                      "image-segmentation", "text-to-audio"}}
        \cup (IF env.tf THEN {<<"tf", "transformers", "conversational">>} ELSE {})

\* C26 witness: with TensorFlow installed, "conversational" had two loaders
\* in the TensorFlow table and get_model_class_for_task took the first
C26_Witness ==
    /\ env.tf
    /\ IsGetModelClass
    /\ call.task = "conversational" /\ call.framework = "tf"
    /\ call.model_type = None /\ call.model_class_name = None
    /\ call.library = "transformers"
    /\ <<"tf", "transformers", "conversational">> \in SeveralLoaders
    /\ call.outcome = Ok(<<"transformers", "TFAutoModelForCausalLM">>)

\* the last get_model_class_for_task reached a task with several loaders:
\* the framework is valid, no custom class, no model_class_name
ReachedSeveralLoaders ==
    /\ IsGetModelClass
    /\ _validate_framework_choice(call.framework, env).kind = "ok"
    /\ called_custom_key \notin DOMAIN _CUSTOM_CLASSES
    /\ call.library \in DOMAIN loader_maps[call.framework]
    /\ call.model_class_name = None
    /\ called_custom_key[3] \in Keys(called_loader_table)
    /\ ~called_loader.str

\* C27: at a task with several loaders, get_model_class_for_task raises
\* NotImplementedError for a library other than transformers; for transformers
\* it returns the first loader without a model_type, and with one the first
\* loader, in the order of the entry, whose _model_mapping has the model type
\* as given or with "_" for "-", or raises ValueError when no loader has it
C27_CandidateSelection ==
    ReachedSeveralLoaders
    => LET names == called_loader.names
           has(i) == \/ call.model_type \in _model_mapping[names[i]]
                     \/ HyphenToUnderscore(call.model_type) \in _model_mapping[names[i]]
           candidates == {i \in DOMAIN names : has(i)}
       IN IF call.library # "transformers"
          THEN call.outcome.kind = "NotImplementedError"
          ELSE IF call.model_type = None
          THEN call.outcome = Ok(<<call.library, names[1]>>)
          ELSE IF candidates = {}
          THEN call.outcome.kind = "ValueError"
          ELSE call.outcome
                   = Ok(<<call.library,
                          names[CHOOSE i \in candidates : \A j \in candidates : i <= j]>>)

\* C27 witness: "speech-to-text" is in the mapping of the first loader of
\* "automatic-speech-recognition" as "speech_to_text" only
C27_Witness ==
    /\ ReachedSeveralLoaders
    /\ call.task = "automatic-speech-recognition" /\ call.model_type = "speech-to-text"
    /\ call.library = "transformers"
    /\ "speech-to-text" \notin _model_mapping["AutoModelForSpeechSeq2Seq"]
    /\ call.outcome = Ok(<<"transformers", "AutoModelForSpeechSeq2Seq">>)

----------------------------------------------------------------------------
(* Properties of the task inference from a class *)

\* C28: for every task of the PyTorch table of transformers whose entry is
\* one class name, _infer_task_from_model_or_model_class of a class of that
\* name returns map_from_synonym of the task, which map_from_synonym leaves
\* as it is; so the loader of "feature-extraction" gives "feature-extraction"
C28_LoaderRoundTrip ==
    (/\ call.op = "_infer_task_from_model_or_model_class"
     /\ call.model = NoneObj /\ call.model_class # NoneObj)
    => \A row \in Range(_TRANSFORMERS_TASKS_TO_MODEL_LOADERS) :
           (row[2].str /\ row[2].names[1] = call.model_class.class_name)
           => /\ call.outcome = Ok(map_from_synonym(row[1]))
              /\ map_from_synonym(call.outcome.value) = call.outcome.value

----------------------------------------------------------------------------
(* Properties of the spelling of the model type *)

\* the key get_supported_tasks_for_model_type looks the explicit model_type
\* of the last lookup up under, and the table it looks in
called_key == UnderscoreToHyphen(Lower(call.model_type))
called_table ==
    IF call.library_name = None THEN merged_supported_model_type(registry)
                                ELSE registry[call.library_name]

\* C29: a lookup with an explicit model_type that is, in lower case and with
\* "-" for "_", a key of the table of the library has an outcome of the lookup
\* with that key as model_type, and does not raise the KeyError of the table
\* of the default model types
C29_ModelTypeSpelling ==
    (/\ IsLookup
     /\ call.model_type # None
     /\ call.library_name # None => call.library_name \in DOMAIN registry
     /\ called_key \in DOMAIN called_table)
    => /\ call.outcome \in get_exporter_config_constructor(registry, call.exporter, call.model,
                               call.task, called_key, call.exporter_config_kwargs,
                               call.library_name)
       /\ call.outcome # Raise("KeyError", "_MODEL_TYPE_FOR_DEFAULT_CONFIG")

----------------------------------------------------------------------------
(* Properties of the loading of a model *)

IsGetModelFromTask == call.op = "get_model_from_task"
previous_kwargs == call.attempts[1].kwargs

\* C30: get_model_from_task loads at most twice.  A second load follows a
\* first from_pretrained of transformers or diffusers that raised OSError, and
\* only that; it has from_tf=True under "pt" and from_pt=True under "tf" and
\* every other keyword argument of the first.  When the call has ended, a
\* first load that raised OSError for these libraries was loaded again, and the
\* error of the last load, if it raised and was not loaded again, is the error
\* of the call.  standardize_model_attributes ran only after a load that
\* succeeded, and a timm or sentence_transformers model is loaded at most once
C30_LoadRetriedOnce ==
    IsGetModelFromTask
    => LET n == Len(call.attempts)
           flag == IF call.framework = "pt" THEN "from_tf" ELSE "from_pt"
       IN /\ n <= 2
          /\ n = 2
             => /\ call.library_name \in {"transformers", "diffusers"}
                /\ call.attempts[1].result = "OSError"
                /\ DOMAIN call.attempts[2].kwargs = DOMAIN previous_kwargs \cup {flag}
                /\ call.attempts[2].kwargs[flag] = TRUE
                /\ \A key \in DOMAIN previous_kwargs \ {flag} :
                       call.attempts[2].kwargs[key] = previous_kwargs[key]
          /\ (call.pc = "done" /\ n = 1 /\ call.attempts[1].result = "OSError")
             => call.library_name \in {"timm", "sentence_transformers"}
          /\ (call.pc = "done" /\ n > 0 /\ call.attempts[n].result # "ok")
             => call.outcome.kind = call.attempts[n].result
          /\ call.standardized => (n > 0 /\ call.attempts[n].result = "ok")
          /\ call.library_name \in {"timm", "sentence_transformers"} => n <= 1

\* C30 witness: a PyTorch load of a transformers model raised OSError, the
\* second load, with from_tf=True, succeeded and the model was standardized
C30_Witness ==
    /\ IsGetModelFromTask
    /\ call.library_name = "transformers" /\ call.framework = "pt"
    /\ Len(call.attempts) = 2
    /\ call.attempts[1].result = "OSError" /\ "from_tf" \notin DOMAIN call.attempts[1].kwargs
    /\ call.attempts[2].result = "ok" /\ call.attempts[2].kwargs.from_tf
    /\ call.standardized /\ call.outcome.kind = "ok"

====
